---- MODULE Spec2Model ----
(***************************************************************************)
(* Model of the Yandex.Music track bot's extraction pipeline:              *)
(*   RequestManager.fetch        retrying HTTP fetch (request_manager.py)  *)
(*   YandexMusicParser           orchestrator        (yandex_parser.py)    *)
(*   CascadeParser               strategy dispatcher (parsers/cascade.py)  *)
(*   TrackCache over TTLCache    bounded TTL cache   (services/cache.py)   *)
(*   validate_yandex_music_url   URL classification  (utils/validators.py) *)
(* Coroutines switch only at awaits, so one action runs a flow from one    *)
(* await (client.get, asyncio.sleep) to the next one or to its end.        *)
(* Durations are in milliseconds, cache time in whole clock ticks.         *)
(***************************************************************************)
EXTENDS Integers, Sequences, FiniteSets, TLC

VARIABLES
    flow,          \* per flow: the frame of one get_track_info call
    cacheLinks,    \* TTLCache: entries [key, value, expires] in __links (LRU) order
    hits,          \* TrackCache._hits
    misses,        \* TrackCache._misses
    now,           \* the cache timer (time.monotonic), in ticks
    lastPut,       \* history: the latest TrackCache.set not yet cleared [key, value, at]
    cascadePage,   \* history: the page of the last cascade parse
    registered,    \* the parsers list handed to CascadeParser.__init__
    parsers,       \* CascadeParser.parsers (sorted at construction)
    cascadeLog,    \* history: can_parse / parse calls of the last cascade parse
    cascadeOut,    \* history: outcome of the last cascade parse
    max_retries,   \* RequestManager.max_retries, as the constructor was given it
    gets,          \* history: TrackCache.get calls since construction or reset_stats
    lastGet,       \* history: the latest TrackCache.get [key, result]
    statsOut,      \* history: what the latest TrackCache.stats returned
    putNote,       \* history: whether the latest set evicted, and was read since
    validated,     \* history: the latest validate_yandex_music_url call [url, out]
    applied,       \* history: the latest call of a stateless helper [fn, arg, out]
    stored         \* history: the (key, record) pairs stored by calls the handler made

vars == <<flow, cacheLinks, hits, misses, now, lastPut,
          registered, parsers, cascadePage, cascadeLog, cascadeOut,
          max_retries, gets, lastGet, statsOut, putNote, validated, applied, stored>>

cacheVars == <<cacheLinks, hits, misses, lastPut, gets, lastGet, statsOut, putNote>>
cascadeVars == <<registered, parsers, cascadePage, cascadeLog, cascadeOut>>
otherVars == <<max_retries, validated, applied, stored>>

----------------------------------------------------------------------------
(* Bounds of the model *)

NumFlows == 2
NumKeys == 2
NumUrls == 1
MaxTime == 3
MaxLookups == 2
CacheMaxsize == 1
CacheTtl == 2
LongRetries == 7

(* Program constants *)

MAX_RETRIES == 2
InitialDelayMs == 1000
MaxDelayMs == 60000
Multiplier == 2
JitterPct == 10

Flows == 1..NumFlows
SeqFlows == {1}
Keys == 1..NumKeys
Urls == 1..NumUrls

\* track_id arguments that are falsy: None (0) and the empty string (-1).
NoKeyArgs == {0, -1}
KeyArgs == Keys \cup NoKeyArgs

Min(a, b) == IF a <= b THEN a ELSE b
Max(a, b) == IF a >= b THEN a ELSE b

RECURSIVE Pow(_, _)
Pow(b, e) == IF e <= 0 THEN 1 ELSE b * Pow(b, e - 1)

----------------------------------------------------------------------------
(* Strategies and pages *)

JsonLd == "JSON-LD"
OpenGraph == "Open Graph"
HtmlCss == "HTML/CSS"
Strategies == {JsonLd, OpenGraph, HtmlCss}

priority(p) ==
    CASE p = JsonLd -> 1
      [] p = OpenGraph -> 2
      [] p = HtmlCss -> 3

DefaultParsers == <<JsonLd, OpenGraph, HtmlCss>>

\* What one strategy does on a given page.
Behaviours == {"inapplicable", "probe_fault", "decline", "parse_fault", "ok"}
Pages == [Strategies -> Behaviours]
\* The body of an error response holds nothing a strategy can use.
ErrorPage == [s \in Strategies |-> "inapplicable"]

TrackInfo(url, by) == [url |-> url, by |-> by]
Records == [url : Urls, by : Strategies]
\* Python's None where a TrackInfo is expected.
NoRecord == [url |-> 0, by |-> "None"]

\* sorted(parsers, key=priority): stable insertion sort.
RECURSIVE insert_sorted(_, _)
insert_sorted(s, p) ==
    IF s = <<>> THEN <<p>>
    ELSE IF priority(p) < priority(s[Len(s)])
         THEN Append(insert_sorted(SubSeq(s, 1, Len(s) - 1), p), s[Len(s)])
         ELSE Append(s, p)

\* A constructor that kept the list as registered.
unsorted(s) == s

RECURSIVE sorted_by_priority(_)
sorted_by_priority(s) ==
    IF s = <<>> THEN <<>>
    ELSE insert_sorted(sorted_by_priority(SubSeq(s, 1, Len(s) - 1)), s[Len(s)])

\* The calls the loop body makes on parser p and how the body ends:
\* "skip" (can_parse is false), "none" (parse returned None), "result",
\* or "fault" (can_parse or parse raised).
parser_calls(p, page) ==
    LET b == page[p] IN
    CASE b = "inapplicable" -> [log |-> <<<<"can_parse", p>>>>, ends |-> "skip"]
      [] b = "probe_fault"  -> [log |-> <<<<"can_parse", p>>>>, ends |-> "fault"]
      [] b = "decline"      -> [log |-> <<<<"can_parse", p>>, <<"parse", p>>>>, ends |-> "none"]
      [] b = "parse_fault"  -> [log |-> <<<<"can_parse", p>>, <<"parse", p>>>>, ends |-> "fault"]
      [] b = "ok"           -> [log |-> <<<<"can_parse", p>>, <<"parse", p>>>>, ends |-> "result"]

\* A loop body whose except clause re-raised.
on_parser_fault_raise == "raise"

\* except Exception in the loop body: log and continue.
on_parser_fault == "continue"

\* CascadeParser.parse: the first result in list order, or None.
RECURSIVE cascade_from(_, _, _, _, _)
cascade_from(ps, i, page, url, log) ==
    IF i > Len(ps) THEN [result |-> NoRecord, log |-> log, raised |-> FALSE]
    ELSE LET c == parser_calls(ps[i], page) IN
         CASE c.ends = "result" ->
                [result |-> TrackInfo(url, ps[i]), log |-> log \o c.log, raised |-> FALSE]
           [] c.ends = "fault" /\ on_parser_fault # "continue" ->
                [result |-> NoRecord, log |-> log \o c.log, raised |-> TRUE]
           [] OTHER -> cascade_from(ps, i + 1, page, url, log \o c.log)

cascade_parse(ps, page, url) == cascade_from(ps, 1, page, url, <<>>)

NotParsed == [called |-> FALSE, result |-> NoRecord, raised |-> FALSE]

----------------------------------------------------------------------------
(* TTLCache (cachetools) as TrackCache uses it *)

expire(c, t) == SelectSeq(c, LAMBDA e : t < e.expires)

cache_contains(c, t, k) == \E i \in 1..Len(c) : c[i].key = k /\ t < c[i].expires

cache_value(c, k) == (CHOOSE i \in 1..Len(c) : c[i].key = k)

without_key(c, k) == SelectSeq(c, LAMBDA e : e.key # k)

\* A lookup that finds nothing.
ttl_get_absent(c, t, k) == [result |-> NoRecord, links |-> c]

\* A lookup that answers with the oldest live entry, whatever its key.
ttl_get_any_key(c, t, k) ==
    IF expire(c, t) # <<>>
    THEN [result |-> expire(c, t)[1].value, links |-> c]
    ELSE [result |-> NoRecord, links |-> c]

\* TTLCache.get: the live value (and the key becomes most recently used) or None.
ttl_get(c, t, k) ==
    IF cache_contains(c, t, k)
    THEN LET e == c[cache_value(c, k)] IN
         [result |-> e.value, links |-> Append(without_key(c, k), e)]
    ELSE [result |-> NoRecord, links |-> c]

\* A store that is lost.
ttl_set_dropped(c, t, k, v) == expire(c, t)

\* A store that never evicts.
ttl_set_unbounded(c, t, k, v) ==
    Append(without_key(expire(c, t), k), [key |-> k, value |-> v, expires |-> t + CacheTtl])

\* A store that leaves a live entry of the key as it is.
ttl_set_keep_first(c, t, k, v) ==
    LET live == expire(c, t) IN
    IF cache_contains(c, t, k) THEN live
    ELSE Append(IF Len(live) + 1 > CacheMaxsize
                THEN SubSeq(live, Len(live) - CacheMaxsize + 2, Len(live))
                ELSE live,
                [key |-> k, value |-> v, expires |-> t + CacheTtl])

\* TTLCache.__setitem__: expire, evict least recently used while full, link at the end.
ttl_set(c, t, k, v) ==
    LET live == expire(c, t)
        present == \E i \in 1..Len(live) : live[i].key = k
        kept == IF present THEN without_key(live, k)
                ELSE IF Len(live) + 1 > CacheMaxsize
                     THEN SubSeq(live, Len(live) - CacheMaxsize + 2, Len(live))
                     ELSE live
    IN Append(kept, [key |-> k, value |-> v, expires |-> t + CacheTtl])

\* A length that counts the expired entries still linked.
ttl_len_lazy(c, t) == Len(c)

\* len(TTLCache): expires first.
ttl_len(c, t) == Len(expire(c, t))

----------------------------------------------------------------------------
(* httpx: what client.get can produce *)

\* Statuses client.get hands back (it follows redirects itself).
StatusCodes == {200, 400, 403, 404, 410, 418, 429, 500, 501, 502, 503, 504}
RETRY_ON_STATUS == {429, 500, 502, 503, 504}

\* Retry-After header values: absent, seconds as text, or an HTTP date.
RetryAfterHeaders == {"absent", "0", "5", "90", "date"}

TimeoutClasses == {"ConnectTimeout", "ReadTimeout", "WriteTimeout", "PoolTimeout"}
HTTPErrorClasses == TimeoutClasses \cup
    {"ConnectError", "ReadError", "RemoteProtocolError", "HTTPStatusError"}

Exc(cls, ssl) == [cls |-> cls, ssl |-> ssl, status |-> 0]
HTTPStatusError(s) == [cls |-> "HTTPStatusError", ssl |-> FALSE, status |-> s]
GenericHTTPError == [cls |-> "HTTPError", ssl |-> FALSE, status |-> 0]
NoException == [cls |-> "None", ssl |-> FALSE, status |-> 0]

\* Exceptions client.get raises: timeouts, connection failures (a TLS handshake
\* failure arrives as ConnectError whose text names SSL), read errors (possibly
\* TLS, mid-stream), protocol errors, and InvalidURL, which is no httpx.HTTPError.
TransportExceptions ==
    { Exc(c, FALSE) : c \in TimeoutClasses \cup
                             {"ConnectError", "ReadError", "RemoteProtocolError", "InvalidURL"} }
    \cup { Exc("ConnectError", TRUE), Exc("ReadError", TRUE) }

Responses ==
    { [status |-> s, retry_after |-> "absent", page |-> ErrorPage] : s \in StatusCodes \ {200, 429} }
    \cup { [status |-> 429, retry_after |-> h, page |-> ErrorPage] : h \in RetryAfterHeaders }
    \cup { [status |-> 200, retry_after |-> "absent", page |-> p] : p \in Pages }

NoFloat == [none |-> TRUE, ms |-> 0]
Float(ms) == [none |-> FALSE, ms |-> ms]

\* float(text) in milliseconds, or None on ValueError.
parse_float_ms(h) ==
    CASE h = "0" -> Float(0)
      [] h = "5" -> Float(5000)
      [] h = "90" -> Float(90000)
      [] OTHER -> NoFloat

get_retry_after(resp) ==
    IF resp.retry_after = "absent" THEN NoFloat
    ELSE parse_float_ms(resp.retry_after)

\* Truth value of an Optional[float]: None and 0.0 are falsy.
truthy_float(x) == ~x.none /\ x.ms # 0

JitterDraws == {-1, 0, 1}

\* A wait that does not grow.
backoff_constant(attempt, u) == InitialDelayMs

\* u is the draw of random.uniform over [-jitter_amount, jitter_amount], as a sign.
calculate_backoff(attempt, u) ==
    LET delay0 == InitialDelayMs * Pow(Multiplier, attempt - 1)
        delay1 == Min(delay0, MaxDelayMs)
        jitter_amount == (delay1 * JitterPct) \div 100
    IN Max(0, delay1 + u * jitter_amount)

----------------------------------------------------------------------------
(* The bot's exception taxonomy (exceptions.py) *)

BotError(family, cls, status) == [family |-> family, cls |-> cls, status |-> status]
NoError == BotError("none", "none", 0)

\* A mapping that knows no status.
http_error_untyped(status_code) == "HttpError"

\* HTTP_ERROR_MAP.get(status_code, ServerError)
get_http_error(status_code) ==
    CASE status_code = 400 -> "BadRequestError"
      [] status_code = 403 -> "ForbiddenError"
      [] status_code = 404 -> "TrackNotFoundError"
      [] status_code = 410 -> "TrackDeletedError"
      [] status_code = 429 -> "RateLimitError"
      [] status_code = 500 -> "ServerError"
      [] status_code = 502 -> "BadGatewayError"
      [] status_code = 503 -> "ServiceUnavailableError"
      [] status_code = 504 -> "GatewayTimeoutError"
      [] OTHER -> "ServerError"

ParsingError == BotError("ParsingError", "ParsingError", 0)

\* An exception that is none of the bot's: it reaches the caller as it is.
RawError(e) == BotError("raw", e.cls, e.status)

\* The except clauses of _fetch_with_retry, in their order.
fetch_with_retry_except(e) ==
    CASE e.cls = "ConnectTimeout" -> BotError("NetworkError", "ConnectTimeoutError", 0)
      [] e.cls = "ReadTimeout" -> BotError("NetworkError", "ReadTimeoutError", 0)
      [] e.cls = "ConnectError" -> BotError("NetworkError", "ConnectionError", 0)
      [] e.cls = "RemoteProtocolError" -> BotError("NetworkError", "RemoteProtocolError", 0)
      [] e.cls = "HTTPStatusError" -> BotError("HttpError", get_http_error(e.status), e.status)
      [] OTHER -> IF e.ssl THEN BotError("NetworkError", "SSLError", 0) ELSE RawError(e)

----------------------------------------------------------------------------
(* One get_track_info call *)

IdleFlow ==
    [pc |-> "idle", url |-> 0, key |-> 0, attempt |-> 0,
     last_exception |-> NoException,
     result |-> NoRecord, error |-> NoError,
     \* history of the call
     via |-> "none", requests |-> 0, extracts |-> 0, sleeps |-> <<>>, events |-> <<>>,
     msg |-> 0,
     terminal_status |-> 0, only_transport |-> TRUE, last_failure |-> NoException,
     page_failed |-> FALSE, all_retryable |-> TRUE, last_status |-> 0,
     raised |-> NoException, after_loop |-> FALSE, last_retry_after |-> "absent"]

\* A retry that does not use up an attempt.
next_attempt_stuck(a) == a

\* range(self.max_retries + 1): the attempt after attempt a.
next_attempt(a) == a + 1

\* A loop that gives up after its first attempt.
attempts_never_remain(a) == FALSE

\* attempt < self.max_retries
attempts_remain(a) == a < max_retries

\* Response.raise_for_status raises unless the status is 2xx.
is_success(status) == status >= 200 /\ status <= 299

\* get_track_info ends by raising what _fetch_with_retry makes of e.
fetch_raises(r, e) ==
    [r EXCEPT !.pc = "done", !.error = fetch_with_retry_except(e),
              !.events = Append(@, "raise"), !.raised = e]

\* asyncio.sleep(delay) of the kind given.
sleeping(r, kind, ms) ==
    [r EXCEPT !.pc = kind, !.sleeps = Append(@, [kind |-> kind, ms |-> ms])]

\* `continue`: the for loop takes its next attempt, which starts with the
\* backoff sleep (attempt > 0), or ends and the code after the loop raises.
loop_continue(r) ==
    LET a == next_attempt(r.attempt) IN
    IF a > max_retries
    THEN { fetch_raises([r EXCEPT !.after_loop = TRUE],
                        IF r.last_exception # NoException
                        THEN r.last_exception ELSE GenericHTTPError) }
    ELSE { sleeping([r EXCEPT !.attempt = a], "sleep_backoff", calculate_backoff(a, u))
             : u \in JitterDraws }

\* except httpx.TimeoutException / except httpx.HTTPError: retry or re-raise;
\* any other exception leaves fetch uncaught.
fetch_except(r, e) ==
    IF e.cls \in HTTPErrorClasses
    THEN LET r1 == [r EXCEPT !.last_exception = e] IN
         IF attempts_remain(r.attempt) THEN loop_continue(r1) ELSE { fetch_raises(r1, e) }
    ELSE { fetch_raises(r, e) }

\* The 429 branch: a truthy Retry-After is slept, capped by max_delay.
retry_after_sleep(r, resp) ==
    sleeping(r, "sleep_retry_after", Min(get_retry_after(resp).ms, MaxDelayMs))

\* A 429 branch that sleeps whatever header there is.
uses_retry_after_if_present(resp) ==
    resp.status = 429 /\ resp.retry_after # "absent"

uses_retry_after(resp) ==
    resp.status = 429 /\ truthy_float(get_retry_after(resp))

\* A retry decision that forgets the attempts left.
should_retry_status_always(r, resp) == resp.status \in RETRY_ON_STATUS

\* response.status_code in retry_on_status and attempt < self.max_retries
should_retry_status(r, resp) ==
    resp.status \in RETRY_ON_STATUS /\ attempts_remain(r.attempt)

\* fetch from the arrival of the response to its next await or its end;
\* pc "fetched" stands for `return response`.
fetch_on_response(r, resp) ==
    IF should_retry_status(r, resp)
    THEN IF uses_retry_after(resp)
         THEN { retry_after_sleep(r, resp) }
         ELSE loop_continue([r EXCEPT !.last_exception = HTTPStatusError(resp.status)])
    ELSE IF ~is_success(resp.status)
         THEN fetch_except(r, HTTPStatusError(resp.status))
         ELSE { [r EXCEPT !.pc = "fetched"] }

\* client.get(url, headers=headers) is issued.
issue_get(r) ==
    [r EXCEPT !.pc = "get", !.requests = @ + 1, !.sleeps = <<>>]

\* if track_id is not None
key_given_not_none(key) == key # 0

\* if track_id
key_given(key) == key \in Keys

\* A lookup whose result is not used.
cache_hit_ignored(cached_track) == FALSE

\* if cached_track
cache_hit(cached_track) == cached_track # NoRecord

NoPut == [key |-> 0, value |-> NoRecord, at |-> 0]
NoNote == [read |-> FALSE, evicted |-> FALSE]
NoGet == [called |-> FALSE, key |-> 0, result |-> NoRecord]
NoStats == [called |-> FALSE, size |-> 0, at |-> 0, flip |-> FALSE]

\* A get that counts every call as a hit.
counts_as_hit_always(result) == TRUE

\* if result
counts_as_hit(result) == result # NoRecord

\* TrackCache.get
cache_get(k) ==
    LET g == ttl_get(cacheLinks, now, k) IN
    /\ cacheLinks' = g.links
    /\ IF counts_as_hit(g.result)
       THEN hits' = hits + 1 /\ misses' = misses
       ELSE misses' = misses + 1 /\ hits' = hits
    /\ gets' = gets + 1

\* TrackCache.set
cache_set(k, info) ==
    /\ cacheLinks' = ttl_set(cacheLinks, now, k, info)
    /\ lastPut' = [key |-> k, value |-> info, at |-> now]
    /\ UNCHANGED <<hits, misses, gets>>

\* The body of get_track_info up to its first await: the cache lookup, then
\* attempt 0 of fetch, which sleeps nothing and issues the request.
get_track_info_body(f, url, key) ==
    LET r == [IdleFlow EXCEPT !.url = url, !.key = key, !.msg = flow[f].msg] IN
    IF key_given(key)
    THEN /\ hits + misses < MaxLookups
         /\ cache_get(key)
         /\ LET cached == ttl_get(cacheLinks, now, key).result IN
            flow' = [flow EXCEPT ![f] =
                       IF cache_hit(cached)
                       THEN [r EXCEPT !.pc = "done", !.via = "cache", !.result = cached,
                                      !.events = <<"lookup", "return">>]
                       ELSE issue_get([r EXCEPT !.via = "fetch",
                                                !.events = <<"lookup", "fetch">>])]
         /\ UNCHANGED <<now, lastPut, lastGet, statsOut, putNote, cascadeVars, otherVars>>
    ELSE /\ flow' = [flow EXCEPT ![f] =
                       issue_get([r EXCEPT !.via = "fetch", !.events = <<"fetch">>])]
         /\ UNCHANGED <<now, cacheVars, cascadeVars, otherVars>>

\* YandexMusicParser.get_track_info(url, track_id) is called.
get_track_info(f, url, key) ==
    /\ flow[f].pc = "idle"
    /\ get_track_info_body(f, url, key)

\* A missing check of the cascade's result.
parse_failed_ignored(track_info) == FALSE

\* if not track_info
parse_failed(track_info) == track_info = NoRecord

AllFail(page) == \A s \in Strategies : page[s] # "ok"

\* A call that never stores what it extracted.
store_skipped(track_id) == FALSE

\* if track_id (before self.cache.set)
store_wanted(track_id) == key_given(track_id)

\* Stages 3 and 4 of get_track_info on the fetched page.
extract_and_store(f, r, page) ==
    LET out == cascade_parse(parsers, page, r.url)
        r1 == [r EXCEPT !.pc = "done", !.extracts = @ + 1, !.page_failed = AllFail(page),
                        !.events = @ \o <<"page", "extract">>]
    IN
    IF out.raised
    THEN /\ flow' = [flow EXCEPT ![f] = [r1 EXCEPT !.error = BotError("raw", "Exception", 0),
                                                   !.events = Append(@, "raise")]]
         /\ UNCHANGED <<cacheVars, stored>>
    ELSE IF parse_failed(out.result)
    THEN /\ flow' = [flow EXCEPT ![f] = [r1 EXCEPT !.error = ParsingError,
                                                   !.events = Append(@, "raise")]]
         /\ UNCHANGED <<cacheVars, stored>>
    ELSE IF store_wanted(r.key)
    THEN /\ flow' = [flow EXCEPT ![f] = [r1 EXCEPT !.result = out.result,
                                                   !.events = @ \o <<"store", "return">>]]
         /\ cache_set(r.key, out.result) /\ UNCHANGED <<lastGet, statsOut, putNote>>
         /\ stored' = IF r.msg # 0 THEN stored \cup {<<r.key, out.result>>} ELSE stored
    ELSE /\ flow' = [flow EXCEPT ![f] = [r1 EXCEPT !.result = out.result,
                                                   !.events = Append(@, "return")]]
         /\ UNCHANGED <<cacheVars, stored>>

\* client.get returns a response.
client_get_responds(f, resp) ==
    /\ flow[f].pc = "get"
    /\ LET r == [flow[f] EXCEPT
                   !.only_transport = FALSE,
                   !.last_failure = NoException,
                   !.last_status = resp.status,
                   !.last_retry_after = resp.retry_after,
                   !.all_retryable = @ /\ resp.status \in RETRY_ON_STATUS,
                   !.terminal_status =
                       IF ~is_success(resp.status) /\ resp.status \notin RETRY_ON_STATUS
                       THEN resp.status ELSE @]
       IN \E r2 \in fetch_on_response(r, resp) :
            IF r2.pc = "fetched"
            THEN extract_and_store(f, r2, resp.page)
            ELSE flow' = [flow EXCEPT ![f] = r2] /\ UNCHANGED <<cacheVars, stored>>
    /\ UNCHANGED <<now, cascadeVars, max_retries, validated, applied>>

\* client.get raises.
client_get_raises(f, e) ==
    /\ flow[f].pc = "get"
    /\ \E r2 \in fetch_except([flow[f] EXCEPT !.last_failure = e, !.last_status = 0,
                                              !.all_retryable = FALSE], e) :
          flow' = [flow EXCEPT ![f] = r2]
    /\ UNCHANGED <<now, cacheVars, cascadeVars, otherVars>>

\* The Retry-After sleep ends: `continue`.
sleep_retry_after_ends(f) ==
    /\ flow[f].pc = "sleep_retry_after"
    /\ \E r2 \in loop_continue(flow[f]) : flow' = [flow EXCEPT ![f] = r2]
    /\ UNCHANGED <<now, cacheVars, cascadeVars, otherVars>>

\* The backoff sleep ends: the attempt issues its request.
sleep_backoff_ends(f) ==
    /\ flow[f].pc = "sleep_backoff"
    /\ flow' = [flow EXCEPT ![f] = issue_get(flow[f])]
    /\ UNCHANGED <<now, cacheVars, cascadeVars, otherVars>>

\* The caller has the outcome; the flow can take the next message.
call_returns(f) ==
    /\ flow[f].pc = "done"
    /\ flow' = [flow EXCEPT ![f] = IdleFlow]
    /\ UNCHANGED <<now, cacheVars, cascadeVars, otherVars>>

\* Time passes.
tick ==
    /\ now < MaxTime
    /\ now' = now + 1
    /\ UNCHANGED <<flow, cacheVars, cascadeVars, otherVars>>

\* YandexMusicParser.clear_cache
clear_cache ==
    /\ cacheLinks # <<>>
    /\ cacheLinks' = <<>>
    /\ lastPut' = NoPut
    /\ putNote' = NoNote
    /\ UNCHANGED <<flow, hits, misses, gets, lastGet, statsOut, now, cascadeVars, otherVars>>

\* YandexMusicParser.get_cache_stats: TrackCache.stats, whose len() drops
\* the expired entries.
get_cache_stats ==
    /\ cacheLinks' = expire(cacheLinks, now)
    /\ UNCHANGED <<flow, hits, misses, lastPut, gets, lastGet, statsOut, putNote, now,
                   cascadeVars, otherVars>>

\* TrackCache.reset_stats
reset_stats ==
    /\ hits + misses > 0
    /\ hits' = 0 /\ misses' = 0
    /\ gets' = 0
    /\ UNCHANGED <<flow, cacheLinks, lastPut, lastGet, statsOut, putNote, now, cascadeVars, otherVars>>

NotValidated == [called |-> FALSE]
NotApplied == [called |-> FALSE]

----------------------------------------------------------------------------
(* Sequential calls on one orchestrator *)

Init ==
    /\ flow = [f \in Flows |-> IdleFlow]
    /\ cacheLinks = <<>>
    /\ hits = 0 /\ misses = 0
    /\ now = 0
    /\ lastPut = NoPut
    /\ registered = DefaultParsers
    /\ parsers = sorted_by_priority(registered)
    /\ cascadePage = ErrorPage
    /\ cascadeLog = <<>>
    /\ cascadeOut = NotParsed
    /\ max_retries = MAX_RETRIES
    /\ gets = 0
    /\ lastGet = NoGet
    /\ statsOut = NoStats
    /\ putNote = NoNote
    /\ validated = NotValidated
    /\ applied = NotApplied
    /\ stored = {}

\* Outcomes of client.get that stand for their kinds where the cache is in
\* play: any page, a rate limit with a usable Retry-After, a retried status,
\* a retried timeout.
CacheRunResponses ==
    { resp \in Responses :
        \/ resp.status \in {200, 503}
        \/ resp.status = 429 /\ resp.retry_after = "5" }
CacheRunExceptions == { Exc("ReadTimeout", FALSE) }

Next ==
    \/ \E f \in SeqFlows, url \in Urls, key \in KeyArgs : get_track_info(f, url, key)
    \/ \E f \in SeqFlows, resp \in CacheRunResponses : client_get_responds(f, resp)
    \/ \E f \in SeqFlows, e \in CacheRunExceptions : client_get_raises(f, e)
    \/ \E f \in SeqFlows : sleep_retry_after_ends(f)
    \/ \E f \in SeqFlows : sleep_backoff_ends(f)
    \/ \E f \in SeqFlows : call_returns(f)
    \/ tick
    \/ clear_cache
    \/ get_cache_stats
    \/ reset_stats

Spec == Init /\ [][Next]_vars

----------------------------------------------------------------------------
(* The fetch of calls that pass no track_id, under everything client.get can do *)

NextFetch ==
    \/ \E f \in SeqFlows, url \in Urls, key \in NoKeyArgs : get_track_info(f, url, key)
    \/ \E f \in SeqFlows, resp \in Responses : client_get_responds(f, resp)
    \/ \E f \in SeqFlows, e \in TransportExceptions : client_get_raises(f, e)
    \/ \E f \in SeqFlows : sleep_retry_after_ends(f)
    \/ \E f \in SeqFlows : sleep_backoff_ends(f)
    \/ \E f \in SeqFlows : call_returns(f)

SpecFetch == Init /\ [][NextFetch]_vars

\* What the event loop owes a suspended call: client.get ends (it returns,
\* or it raises, at the latest by its timeout) and asyncio.sleep ends.
resumes(f) ==
    \/ \E resp \in Responses : client_get_responds(f, resp)
    \/ \E e \in TransportExceptions : client_get_raises(f, e)
    \/ sleep_retry_after_ends(f)
    \/ sleep_backoff_ends(f)

SpecFetchFair == Init /\ [][NextFetch]_vars /\ \A f \in SeqFlows : WF_vars(resumes(f))

\* RequestManager(max_retries=n) for every budget from no retry up to the
\* default.
RetryBudgets == 0..MAX_RETRIES

InitAnyRetries ==
    /\ flow = [f \in Flows |-> IdleFlow]
    /\ cacheLinks = <<>>
    /\ hits = 0 /\ misses = 0
    /\ now = 0
    /\ lastPut = NoPut
    /\ registered = DefaultParsers
    /\ parsers = sorted_by_priority(registered)
    /\ cascadePage = ErrorPage
    /\ cascadeLog = <<>>
    /\ cascadeOut = NotParsed
    /\ max_retries \in RetryBudgets
    /\ gets = 0
    /\ lastGet = NoGet
    /\ statsOut = NoStats
    /\ putNote = NoNote
    /\ validated = NotValidated
    /\ applied = NotApplied
    /\ stored = {}

SpecAnyRetries == InitAnyRetries /\ [][NextFetch]_vars

----------------------------------------------------------------------------
(* validate_yandex_music_url (utils/validators.py) on URLs as sequences of
   characters *)

StartsWith(s, p) == Len(s) >= Len(p) /\ SubSeq(s, 1, Len(p)) = p

\* p occurs in s at index i.
MatchAt(s, i, p) == i >= 1 /\ i + Len(p) - 1 <= Len(s) /\ SubSeq(s, i, i + Len(p) - 1) = p

\* p in s
Contains(s, p) == \E i \in 1..Len(s) : MatchAt(s, i, p)

Digits == {"0", "1", "2", "3", "4", "5", "6", "7", "8", "9"}
Whitespace == {" "}

\* \d+ from index i, greedy: the index after the run of digits (i if none).
RECURSIVE DigitsEnd(_, _)
DigitsEnd(s, i) == IF i <= Len(s) /\ s[i] \in Digits THEN DigitsEnd(s, i + 1) ELSE i

RECURSIVE lstrip(_)
lstrip(s) == IF s # <<>> /\ s[1] \in Whitespace THEN lstrip(Tail(s)) ELSE s

RECURSIVE rstrip(_)
rstrip(s) ==
    IF s # <<>> /\ s[Len(s)] \in Whitespace THEN rstrip(SubSeq(s, 1, Len(s) - 1)) ELSE s

\* str.strip()
strip(s) == rstrip(lstrip(s))

HttpScheme == <<"h", "t", "t", "p", ":", "/", "/">>
HttpsScheme == <<"h", "t", "t", "p", "s", ":", "/", "/">>
MusicYandexDot == <<"m", "u", "s", "i", "c", ".", "y", "a", "n", "d", "e", "x", ".">>
YandexBrand == <<"y", "a", "n", "d", "e", "x">>
AlbumSegment == <<"/", "a", "l", "b", "u", "m", "/">>
TrackSegment == <<"/", "t", "r", "a", "c", "k", "/">>
ArtistSegment == <<"/", "a", "r", "t", "i", "s", "t", "/">>
UsersSegment == <<"/", "u", "s", "e", "r", "s", "/">>
PlaylistsSegment == <<"/", "p", "l", "a", "y", "l", "i", "s", "t", "s", "/">>
TopLevelDomains == { <<"r", "u">>, <<"c", "o", "m">>, <<"b", "y">>, <<"k", "z">>, <<"u", "a">> }

\* url.startswith(('http://', 'https://'))
has_http_scheme(url) == StartsWith(url, HttpScheme) \/ StartsWith(url, HttpsScheme)

\* urlparse(url).netloc of a URL with one of the two schemes: what follows
\* '//' up to the first of '/', '?' and '#', userinfo and port included.
urlparse_netloc(url) ==
    LET from == IF StartsWith(url, HttpsScheme) THEN Len(HttpsScheme) + 1
                ELSE Len(HttpScheme) + 1
        stops == { i \in from..Len(url) : url[i] \in {"/", "?", "#"} }
        to == IF stops = {} THEN Len(url) + 1
              ELSE CHOOSE i \in stops : \A j \in stops : i <= j
    IN SubSeq(url, from, to - 1)

\* ^https?://music\.yandex\.(ru|com|by|kz|ua) : the indexes just after a match.
site_prefix_ends(url) ==
    LET a == IF MatchAt(url, 1, HttpsScheme) THEN Len(HttpsScheme) + 1
             ELSE IF MatchAt(url, 1, HttpScheme) THEN Len(HttpScheme) + 1
             ELSE 0
        b == IF a # 0 /\ MatchAt(url, a, MusicYandexDot) THEN a + Len(MusicYandexDot) ELSE 0
    IN { b + Len(tld) : tld \in { d \in TopLevelDomains : b # 0 /\ MatchAt(url, b, d) } }

\* YANDEX_MUSIC_ALBUM_PATTERN.match(url): .../album/\d+/?$
YANDEX_MUSIC_ALBUM_PATTERN(url) ==
    \E e \in site_prefix_ends(url) :
        /\ MatchAt(url, e, AlbumSegment)
        /\ LET d == DigitsEnd(url, e + Len(AlbumSegment)) IN
           /\ d > e + Len(AlbumSegment)
           /\ \/ d = Len(url) + 1
              \/ d = Len(url) /\ url[d] = "/"

\* YANDEX_MUSIC_ARTIST_PATTERN.match(url): .../artist/\d+
YANDEX_MUSIC_ARTIST_PATTERN(url) ==
    \E e \in site_prefix_ends(url) :
        /\ MatchAt(url, e, ArtistSegment)
        /\ DigitsEnd(url, e + Len(ArtistSegment)) > e + Len(ArtistSegment)

\* YANDEX_MUSIC_PLAYLIST_PATTERN.match(url): .../users/.*/playlists/\d+
YANDEX_MUSIC_PLAYLIST_PATTERN(url) ==
    \E e \in site_prefix_ends(url) :
        /\ MatchAt(url, e, UsersSegment)
        /\ \E j \in (e + Len(UsersSegment))..Len(url) :
              /\ MatchAt(url, j, PlaylistsSegment)
              /\ DigitsEnd(url, j + Len(PlaylistsSegment)) > j + Len(PlaylistsSegment)

\* A group read through int().
group_as_number(url, from, to) ==
    LET g == SubSeq(url, from, to - 1)
        nonzero == { i \in 1..Len(g) : g[i] # "0" }
    IN IF nonzero = {} THEN <<"0">>
       ELSE SubSeq(g, CHOOSE i \in nonzero : \A j \in nonzero : i <= j, Len(g))

\* match.group(name): the matched characters as they are.
match_group(url, from, to) == SubSeq(url, from, to - 1)

NoMatch == [matched |-> FALSE, album_id |-> <<>>, track_id |-> <<>>]

\* The match of .../album/(\d+)/track/(\d+)(?:\?.*)?$ that ends the site prefix at e.
track_match_from(url, e) ==
    LET a1 == e + Len(AlbumSegment)
        a2 == DigitsEnd(url, a1)
        t1 == a2 + Len(TrackSegment)
        t2 == DigitsEnd(url, t1)
    IN IF /\ MatchAt(url, e, AlbumSegment)
          /\ a2 > a1
          /\ MatchAt(url, a2, TrackSegment)
          /\ t2 > t1
          /\ (t2 = Len(url) + 1 \/ url[t2] = "?")
       THEN [matched |-> TRUE, album_id |-> match_group(url, a1, a2),
             track_id |-> match_group(url, t1, t2)]
       ELSE NoMatch

\* YANDEX_MUSIC_TRACK_PATTERN.match(url)
YANDEX_MUSIC_TRACK_PATTERN(url) ==
    LET ms == { track_match_from(url, e) : e \in site_prefix_ends(url) } \ {NoMatch}
    IN IF ms = {} THEN NoMatch ELSE CHOOSE m \in ms : TRUE

Raises(error) == [ok |-> FALSE, error |-> error, album_id |-> <<>>, track_id |-> <<>>]
Returns(album_id, track_id) ==
    [ok |-> TRUE, error |-> "none", album_id |-> album_id, track_id |-> track_id]

validate_yandex_music_url(u) ==
    LET url == strip(u)
        netloc == urlparse_netloc(url)
        match == YANDEX_MUSIC_TRACK_PATTERN(url)
    IN
    IF ~has_http_scheme(url) THEN Raises("NotUrlError")
    ELSE IF netloc = <<>> THEN Raises("NotUrlError")
    ELSE IF ~StartsWith(netloc, MusicYandexDot)
         THEN IF Contains(netloc, YandexBrand)
              THEN Raises("WrongServiceError")
              ELSE Raises("WrongDomainError")
    ELSE IF YANDEX_MUSIC_ALBUM_PATTERN(url) THEN Raises("AlbumUrlError")
    ELSE IF YANDEX_MUSIC_ARTIST_PATTERN(url) THEN Raises("ArtistUrlError")
    ELSE IF YANDEX_MUSIC_PLAYLIST_PATTERN(url) THEN Raises("PlaylistUrlError")
    ELSE IF ~match.matched
         THEN IF Contains(url, AlbumSegment) /\ ~Contains(url, TrackSegment)
              THEN Raises("AlbumUrlError")
              ELSE IF Contains(url, TrackSegment)
                   THEN Raises("InvalidTrackIdError")
                   ELSE Raises("WrongServiceError")
    ELSE Returns(match.album_id, match.track_id)

\* The messages a user can send: scheme, userinfo, host, port, path and tail.
UrlSchemes == { <<"h", "t", "t", "p", "s", ":", "/", "/">>, <<"h", "t", "t", "p", ":", "/", "/">>, <<"f", "t", "p", ":", "/", "/">>, <<>> }
UrlUserinfos == 
    { <<>>,
      <<"m", "u", "s", "i", "c", ".", "y", "a", "n", "d", "e", "x", ".", "r", "u", "@">> }
UrlHosts == 
    { <<"m", "u", "s", "i", "c", ".", "y", "a", "n", "d", "e", "x", ".", "r", "u">>,
      <<"m", "u", "s", "i", "c", ".", "y", "a", "n", "d", "e", "x", ".", "k", "z">>,
      <<"m", "u", "s", "i", "c", ".", "y", "a", "n", "d", "e", "x", ".", "f", "r">>,
      <<"y", "a", "n", "d", "e", "x", ".", "r", "u">>,
      <<"d", "i", "s", "k", ".", "y", "a", "n", "d", "e", "x", ".", "r", "u">>,
      <<"e", "x", "a", "m", "p", "l", "e", ".", "c", "o", "m">>,
      <<>> }
UrlPorts == { <<>>, <<":", "4", "4", "3">> }
UrlPaths == 
    { <<"/", "a", "l", "b", "u", "m", "/", "1", "2", "/", "t", "r", "a", "c", "k", "/", "3", "4">>,
      <<"/", "a", "l", "b", "u", "m", "/", "0", "0", "7", "/", "t", "r", "a", "c", "k", "/", "0", "0", "0", "0", "0", "0", "0", "0", "0", "0", "0", "0", "0", "0", "0", "0", "0", "0", "3", "4">>,
      <<"/", "a", "l", "b", "u", "m", "/", "1", "2">>,
      <<"/", "a", "l", "b", "u", "m", "/", "1", "2", "/">>,
      <<"/", "a", "r", "t", "i", "s", "t", "/", "5">>,
      <<"/", "u", "s", "e", "r", "s", "/", "u", "/", "p", "l", "a", "y", "l", "i", "s", "t", "s", "/", "3">>,
      <<"/", "a", "l", "b", "u", "m", "/", "1", "2", "/", "t", "r", "a", "c", "k", "/", "x">>,
      <<"/", "t", "r", "a", "c", "k", "/", "5">>,
      <<"/", "a", "l", "b", "u", "m", "/", "1", "2", "/", "t", "r", "a", "c", "k", "/", "3", "4", "/">>,
      <<"/">>,
      <<>> }
UrlTails == { <<>>, <<"?", "a">>, <<"#", "f">>, <<" ">> }

UrlInputs ==
    { s \o w \o h \o o \o p \o q :
        s \in UrlSchemes, w \in UrlUserinfos, h \in UrlHosts, o \in UrlPorts,
        p \in UrlPaths, q \in UrlTails }

\* validate_yandex_music_url(url) is called and returns or raises; the
\* function keeps no state, so one call per behaviour shows all it does.
call_validate_yandex_music_url(u) ==
    /\ ~validated.called
    /\ validated' = [called |-> TRUE, url |-> u, out |-> validate_yandex_music_url(u)]
    /\ UNCHANGED <<flow, cacheVars, now, cascadeVars, max_retries, applied, stored>>

NextUrl == \E u \in UrlInputs : call_validate_yandex_music_url(u)

SpecUrl == Init /\ [][NextUrl]_vars

----------------------------------------------------------------------------
(* The cache on its own: any sequence of get, set, clear, stats, reset_stats
   and passing of time *)

\* cache.get(track_id), and what the caller got.
TrackCache_get(k) ==
    /\ gets < MaxLookups
    /\ cache_get(k)
    /\ LET result == ttl_get(cacheLinks, now, k).result IN
       /\ lastGet' = [called |-> TRUE, key |-> k, result |-> result]
       /\ putNote' = IF result # NoRecord /\ k = lastPut.key /\ now > lastPut.at
                     THEN [putNote EXCEPT !.read = TRUE] ELSE putNote
    /\ UNCHANGED <<flow, lastPut, statsOut, now, cascadeVars, otherVars>>

\* cache.set(track_id, info)
TrackCache_set(k, info) ==
    /\ cache_set(k, info)
    /\ putNote' = [read |-> FALSE,
                   evicted |-> /\ ~cache_contains(cacheLinks, now, k)
                               /\ Len(expire(cacheLinks, now)) >= CacheMaxsize]
    /\ UNCHANGED <<flow, lastGet, statsOut, now, cascadeVars, otherVars>>

\* cache.stats(): 'size' is len(self._cache).
TrackCache_stats ==
    /\ cacheLinks' = expire(cacheLinks, now)
    /\ statsOut' = [called |-> TRUE, size |-> ttl_len(cacheLinks, now), at |-> now,
                    flip |-> ~statsOut.flip]
    /\ UNCHANGED <<flow, hits, misses, lastPut, gets, lastGet, putNote, now,
                   cascadeVars, otherVars>>

NextCache ==
    \/ \E k \in Keys : TrackCache_get(k)
    \/ \E k \in Keys, info \in Records : TrackCache_set(k, info)
    \/ clear_cache
    \/ TrackCache_stats
    \/ reset_stats
    \/ tick

SpecCache == Init /\ [][NextCache]_vars

----------------------------------------------------------------------------
(* A parser constructed with a retry budget long enough for the backoff to
   reach max_delay: YandexMusicParser(max_retries=LongRetries) *)

InitBackoff ==
    /\ flow = [f \in Flows |-> IdleFlow]
    /\ cacheLinks = <<>>
    /\ hits = 0 /\ misses = 0
    /\ now = 0
    /\ lastPut = NoPut
    /\ registered = DefaultParsers
    /\ parsers = sorted_by_priority(registered)
    /\ cascadePage = ErrorPage
    /\ cascadeLog = <<>>
    /\ cascadeOut = NotParsed
    /\ max_retries = LongRetries
    /\ gets = 0
    /\ lastGet = NoGet
    /\ statsOut = NoStats
    /\ putNote = NoNote
    /\ validated = NotValidated
    /\ applied = NotApplied
    /\ stored = {}

BackoffRunResponses == { resp \in Responses : resp.status \in {200, 429, 503} }

NextBackoff ==
    \/ \E f \in SeqFlows, url \in Urls, key \in NoKeyArgs : get_track_info(f, url, key)
    \/ \E f \in SeqFlows, resp \in BackoffRunResponses : client_get_responds(f, resp)
    \/ \E f \in SeqFlows, e \in CacheRunExceptions : client_get_raises(f, e)
    \/ \E f \in SeqFlows : sleep_retry_after_ends(f)
    \/ \E f \in SeqFlows : sleep_backoff_ends(f)
    \/ \E f \in SeqFlows : call_returns(f)

SpecBackoff == InitBackoff /\ [][NextBackoff]_vars

----------------------------------------------------------------------------
(* The cascade on its own: any registration of the strategies, any page *)

RECURSIVE SeqsWithoutRepeats(_)
SeqsWithoutRepeats(S) ==
    {<<>>} \cup UNION { { <<x>> \o t : t \in SeqsWithoutRepeats(S \ {x}) } : x \in S }

Registrations == SeqsWithoutRepeats(Strategies)

\* CascadeParser(parsers): the list is sorted once, here.
InitCascade ==
    /\ flow = [f \in Flows |-> IdleFlow]
    /\ cacheLinks = <<>>
    /\ hits = 0 /\ misses = 0
    /\ now = 0
    /\ lastPut = NoPut
    /\ registered \in Registrations
    /\ parsers = sorted_by_priority(registered)
    /\ cascadePage = ErrorPage
    /\ cascadeLog = <<>>
    /\ cascadeOut = NotParsed
    /\ max_retries = MAX_RETRIES
    /\ gets = 0
    /\ lastGet = NoGet
    /\ statsOut = NoStats
    /\ putNote = NoNote
    /\ validated = NotValidated
    /\ applied = NotApplied
    /\ stored = {}

\* CascadeParser.parse(html, url)
cascade_parser_parse(page, url) ==
    LET out == cascade_parse(parsers, page, url) IN
    /\ cascadePage' = page
    /\ cascadeLog' = out.log
    /\ cascadeOut' = [called |-> TRUE, result |-> out.result, raised |-> out.raised]
    /\ UNCHANGED <<flow, cacheVars, now, registered, parsers, otherVars>>

NextCascade == \E page \in Pages, url \in Urls : cascade_parser_parse(page, url)

SpecCascade == InitCascade /\ [][NextCascade]_vars

----------------------------------------------------------------------------
(* extract_artists (utils/artists.py) on JSON values; texts are sequences of
   characters *)

MaxArtists == 4

\* 'Неизвестный артист', kept as one token.
UNKNOWN_ARTIST == <<"unknown artist">>
Feat == <<" ", "f", "e", "a", "t", ".", " ">>
CommaSpace == <<",", " ">>

\* sep.join(parts)
RECURSIVE join(_, _)
join(sep, parts) ==
    IF parts = <<>> THEN <<>>
    ELSE IF Len(parts) = 1 THEN parts[1]
    ELSE parts[1] \o sep \o join(sep, Tail(parts))

\* The texts a name field holds.
ArtistNames == { <<>>, <<" ">>, <<"A">>, <<" ", "B">>, <<"C", " ">>, <<"D">> }

\* One JSON value of a byArtist list, or the byArtist object itself: an
\* object (with or without a name key, with or without other keys) or a
\* bare string; a name is a string or null.
JsonObject(has_name, name_is_str, name, other_keys) ==
    [is_dict |-> TRUE, has_name |-> has_name, name_is_str |-> name_is_str,
     name |-> name, other_keys |-> other_keys]
JsonBareString ==
    [is_dict |-> FALSE, has_name |-> FALSE, name_is_str |-> FALSE,
     name |-> <<>>, other_keys |-> FALSE]
ArtistItems ==
    { JsonObject(TRUE, TRUE, n, TRUE) : n \in ArtistNames }
    \cup { JsonObject(TRUE, FALSE, <<>>, TRUE),
           JsonObject(FALSE, FALSE, <<>>, TRUE),
           JsonObject(FALSE, FALSE, <<>>, FALSE),
           JsonBareString }

\* data.get('byArtist'): None, an object, a list, a string or a number.
ByArtist(type, dict, list, str) == [type |-> type, dict |-> dict, list |-> list, str |-> str]
ListsUpTo(S, n) == UNION { [1..k -> S] : k \in 0..n }
ByArtistInputs ==
    { ByArtist("None", JsonBareString, <<>>, <<>>), ByArtist("number", JsonBareString, <<>>, <<>>) }
    \cup { ByArtist("dict", d, <<>>, <<>>) : d \in { i \in ArtistItems : i.is_dict } }
    \cup { ByArtist("list", JsonBareString, l, <<>>) : l \in ListsUpTo(ArtistItems, MaxArtists) }
    \cup { ByArtist("str", JsonBareString, <<>>, n) : n \in ArtistNames }

\* bool(by_artist)
truthy_json(by_artist) ==
    CASE by_artist.type = "None" -> FALSE
      [] by_artist.type = "dict" -> by_artist.dict.has_name \/ by_artist.dict.other_keys
      [] by_artist.type = "list" -> by_artist.list # <<>>
      [] by_artist.type = "str" -> by_artist.str # <<>>
      [] OTHER -> TRUE

ReturnsText(value) == [raised |-> "none", value |-> value]
RaisesIn(error) == [raised |-> error, value |-> <<>>]

\* The for loop of lines 48-52 from item i on: the names appended, or the
\* AttributeError of .strip() on a name that is not a string.
RECURSIVE collect_names(_, _, _)
collect_names(items, i, names) ==
    IF i > Len(items) THEN [raised |-> "none", names |-> names]
    ELSE IF items[i].is_dict /\ items[i].has_name
         THEN IF ~items[i].name_is_str
              THEN [raised |-> "AttributeError", names |-> names]
              ELSE IF strip(items[i].name) # <<>>
                   THEN collect_names(items, i + 1, Append(names, strip(items[i].name)))
                   ELSE collect_names(items, i + 1, names)
         ELSE collect_names(items, i + 1, names)

\* Every further name joined with " feat. " as well.
format_names_all_feat(names) == join(Feat, names)

\* Lines 54-64: the names as one text.
format_names(names) ==
    IF names = <<>> THEN UNKNOWN_ARTIST
    ELSE IF Len(names) = 1 THEN names[1]
    ELSE IF Len(names) = 2 THEN names[1] \o Feat \o names[2]
    ELSE names[1] \o Feat \o join(CommaSpace, Tail(names))

extract_artists(by_artist) ==
    IF ~truthy_json(by_artist) THEN ReturnsText(UNKNOWN_ARTIST)
    ELSE IF by_artist.type = "dict"
         THEN IF ~by_artist.dict.has_name THEN ReturnsText(UNKNOWN_ARTIST)
              ELSE IF ~by_artist.dict.name_is_str THEN RaisesIn("AttributeError")
              ELSE IF strip(by_artist.dict.name) # <<>>
                   THEN ReturnsText(strip(by_artist.dict.name))
                   ELSE ReturnsText(UNKNOWN_ARTIST)
    ELSE IF by_artist.type = "list"
         THEN LET c == collect_names(by_artist.list, 1, <<>>) IN
              IF c.raised # "none" THEN RaisesIn(c.raised)
              ELSE ReturnsText(format_names(c.names))
    ELSE IF by_artist.type = "str"
         THEN IF strip(by_artist.str) # <<>> THEN ReturnsText(strip(by_artist.str))
              ELSE ReturnsText(UNKNOWN_ARTIST)
    ELSE ReturnsText(UNKNOWN_ARTIST)

\* extract_artists(by_artist) is called and returns or raises; the function
\* keeps no state, so one call per behaviour shows all it does.
call_extract_artists(by_artist) ==
    /\ ~applied.called
    /\ applied' = [called |-> TRUE, fn |-> "extract_artists", arg |-> by_artist,
                   out |-> extract_artists(by_artist)]
    /\ UNCHANGED <<flow, cacheVars, now, cascadeVars, max_retries, validated, stored>>

NextArtists ==
    ~applied.called /\ \E by_artist \in ByArtistInputs : call_extract_artists(by_artist)

SpecArtists == Init /\ [][NextArtists]_vars

----------------------------------------------------------------------------
(* parse_iso_duration (utils/formatters.py) and its use in the JSON-LD
   parser; isodate.parse_duration is taken by its outcomes *)

DigitChars == <<"0", "1", "2", "3", "4", "5", "6", "7", "8", "9">>

\* str(n) of an int
RECURSIVE format_int(_)
format_int(n) ==
    IF n < 0 THEN <<"-">> \o format_int(0 - n)
    ELSE IF n < 10 THEN <<DigitChars[n + 1]>>
    ELSE format_int(n \div 10) \o <<DigitChars[(n % 10) + 1]>>

\* f"{n:02d}"
format_02d(n) == IF 0 <= n /\ n < 10 THEN <<"0">> \o format_int(n) ELSE format_int(n)

\* "—", kept as one token.
UNKNOWN_DURATION == <<"-- (em dash)">>
NoneValue == <<"None">>

\* data.get('duration', ''): a well-formed duration text given by its sign
\* and components (seconds with tenths), a text isodate cannot parse (the
\* default '' among them), or a value that is not a text.
DurationValue(type, negative, years, days, hours, minutes, seconds, tenths) ==
    [type |-> type, negative |-> negative, years |-> years, days |-> days,
     hours |-> hours, minutes |-> minutes, seconds |-> seconds, tenths |-> tenths]
DurationYears == {0, 1}
DurationDays == {0, 1}
DurationHours == {0, 1}
DurationMinutes == {0, 2, 3, 59, 90}
DurationSeconds == {0, 5, 30, 45, 59, 75}
DurationTenths == {0, 5}
DurationInputs ==
    { DurationValue(t, FALSE, 0, 0, 0, 0, 0, 0) : t \in {"malformed", "empty", "None", "number"} }
    \cup { DurationValue("duration", n, y, d, h, m, sec, f) :
             n \in BOOLEAN, y \in DurationYears, d \in DurationDays, h \in DurationHours,
             m \in DurationMinutes, sec \in DurationSeconds, f \in DurationTenths }

\* isodate.parse_duration(datestring): TypeError for what is not a str,
\* ISO8601Error for a str that is no duration, else the timedelta (the
\* tdelta of a Duration with years), here in tenths of a second.
isodate_parse_duration(v) ==
    IF v.type \in {"None", "number"} THEN [raised |-> "TypeError", tenths |-> 0]
    ELSE IF v.type \in {"malformed", "empty"} THEN [raised |-> "ISO8601Error", tenths |-> 0]
    ELSE LET t == ((v.days * 86400) + (v.hours * 3600) + (v.minutes * 60) + v.seconds) * 10
                  + v.tenths
         IN [raised |-> "none", tenths |-> IF v.negative THEN 0 - t ELSE t]

\* int(x) of a float given in tenths: towards zero.
int_of_tenths(t) == IF t >= 0 THEN t \div 10 ELSE 0 - ((0 - t) \div 10)

CaughtInParseIsoDuration == {"ISO8601Error", "ValueError", "AttributeError"}

\* total_seconds // 60
minutes_of(total_seconds) == total_seconds \div 60

parse_iso_duration(iso_duration) ==
    LET duration == isodate_parse_duration(iso_duration)
        total_seconds == int_of_tenths(duration.tenths)
        minutes == minutes_of(total_seconds)
        seconds == total_seconds % 60
    IN IF duration.raised \in CaughtInParseIsoDuration THEN ReturnsText(NoneValue)
       ELSE IF duration.raised # "none" THEN RaisesIn(duration.raised)
       ELSE ReturnsText(format_int(minutes) \o <<":">> \o format_02d(seconds))

\* json_ld.py 70-71: parse_iso_duration(iso_duration) or "—"
json_ld_duration(iso_duration) ==
    LET r == parse_iso_duration(iso_duration) IN
    IF r.raised # "none" THEN r
    ELSE IF r.value = NoneValue THEN ReturnsText(UNKNOWN_DURATION)
    ELSE r

call_parse_iso_duration(iso_duration) ==
    /\ ~applied.called
    /\ applied' = [called |-> TRUE, fn |-> "parse_iso_duration", arg |-> iso_duration,
                   out |-> json_ld_duration(iso_duration)]
    /\ UNCHANGED <<flow, cacheVars, now, cascadeVars, max_retries, validated, stored>>

NextDuration ==
    ~applied.called /\ \E iso_duration \in DurationInputs : call_parse_iso_duration(iso_duration)

SpecDuration == Init /\ [][NextDuration]_vars

----------------------------------------------------------------------------
(* The three strategies' parse methods on the parts of a page they read *)

\* TrackInfo(name, artist, duration, album, url) with the strategy that built it.
TrackInfoFields(name, artist, duration, url, by) ==
    [name |-> name, artist |-> artist, duration |-> duration, url |-> url, by |-> by]
NoTrackInfo == TrackInfoFields(<<>>, <<>>, <<>>, 0, "None")

\* A value read from the page: present or not, a text or not, and its text.
PageValue(present, is_str, text) == [present |-> present, is_str |-> is_str, text |-> text]
Absent == PageValue(FALSE, FALSE, <<>>)
TextValue(text) == PageValue(TRUE, TRUE, text)
NumberValue == PageValue(TRUE, FALSE, <<>>)

\* The <script type="application/ld+json"> block: no tag, a tag without a
\* string, text that is not JSON, a JSON array, or a JSON object.
JsonLdBlock(script, type_ok, name, byArtist, duration) ==
    [script |-> script, type_ok |-> type_ok, name |-> name, byArtist |-> byArtist,
     duration |-> duration]
NoJsonLd == JsonLdBlock("absent", FALSE, Absent, ByArtist("None", JsonBareString, <<>>, <<>>),
                        DurationValue("empty", FALSE, 0, 0, 0, 0, 0, 0))
JsonLdNames ==
    { Absent, NumberValue, TextValue(<<>>), TextValue(<<" ">>), TextValue(<<"T">>),
      TextValue(<<" ", "T", " ">>) }
JsonLdArtists ==
    { ByArtist("None", JsonBareString, <<>>, <<>>),
      ByArtist("dict", JsonObject(TRUE, TRUE, <<"A">>, TRUE), <<>>, <<>>),
      ByArtist("dict", JsonObject(TRUE, TRUE, <<" ">>, TRUE), <<>>, <<>>),
      ByArtist("dict", JsonObject(TRUE, FALSE, <<>>, TRUE), <<>>, <<>>),
      ByArtist("list", JsonBareString,
               <<JsonObject(TRUE, TRUE, <<"A">>, TRUE), JsonObject(TRUE, TRUE, <<"B">>, TRUE)>>,
               <<>>) }
JsonLdDurations ==
    { DurationValue("duration", FALSE, 0, 0, 0, 3, 45, 0),
      DurationValue("empty", FALSE, 0, 0, 0, 0, 0, 0),
      DurationValue("None", FALSE, 0, 0, 0, 0, 0, 0) }
JsonLdBlocks ==
    { JsonLdBlock(k, FALSE, NoJsonLd.name, NoJsonLd.byArtist, NoJsonLd.duration) :
        k \in {"absent", "empty", "invalid", "array", "object"} }
    \cup { JsonLdBlock("object", TRUE, n, a, NoJsonLd.duration) :
             n \in JsonLdNames, a \in JsonLdArtists }
    \cup { JsonLdBlock("object", TRUE, n, NoJsonLd.byArtist, d) :
             n \in JsonLdNames, d \in JsonLdDurations }

\* JsonLdParser.can_parse
json_ld_can_parse(block) == block.script # "absent"

\* JsonLdParser.parse: every exception inside ends in return None.
json_ld_parse(block, url) ==
    LET artist_name == extract_artists(block.byArtist)
        duration == json_ld_duration(block.duration)
    IN IF block.script \in {"absent", "empty"} THEN NoTrackInfo
       ELSE IF block.script = "invalid" THEN NoTrackInfo
       ELSE IF block.script = "array" THEN NoTrackInfo
       ELSE IF ~block.type_ok THEN NoTrackInfo
       ELSE IF ~block.name.present \/ (block.name.is_str /\ block.name.text = <<>>)
            THEN NoTrackInfo
       ELSE IF artist_name.raised # "none" THEN NoTrackInfo
       ELSE IF duration.raised # "none" THEN NoTrackInfo
       ELSE IF ~block.name.is_str THEN NoTrackInfo
       ELSE TrackInfoFields(strip(block.name.text), artist_name.value, duration.value,
                            url, JsonLd)

\* The dashes of the title separators, each one character.
EmDash == "EM DASH"
EnDash == "EN DASH"
\* A list of separators that tries the hyphen first.
TitleSeparators_hyphen_first == << <<" ", "-", " ">>, <<" ", EmDash, " ">>, <<" ", EnDash, " ">> >>

\* for sep in [' — ', ' - ', ' – ']
TitleSeparators == << <<" ", EmDash, " ">>, <<" ", "-", " ">>, <<" ", EnDash, " ">> >>

\* The index of the first occurrence of p in s (0 if none).
find(s, p) ==
    LET at == { i \in 1..Len(s) : MatchAt(s, i, p) }
    IN IF at = {} THEN 0 ELSE CHOOSE i \in at : \A j \in at : i <= j

\* OpenGraphParser._parse_title from separator k on.
RECURSIVE parse_title_from(_, _)
parse_title_from(title, k) ==
    IF k > Len(TitleSeparators) THEN <<title, UNKNOWN_ARTIST>>
    ELSE LET sep == TitleSeparators[k]
             i == find(title, sep)
         IN IF i # 0
            THEN <<strip(SubSeq(title, 1, i - 1)),
                   strip(SubSeq(title, i + Len(sep), Len(title)))>>
            ELSE parse_title_from(title, k + 1)

og_parse_title(title) == parse_title_from(title, 1)

\* The og:title, og:audio:artist and music:duration meta tags: the tag and
\* its content attribute.
OgTags(title, artist, duration) == [title |-> title, artist |-> artist, duration |-> duration]
OgTitles ==
    { Absent, TextValue(<<>>), TextValue(<<" ">>), TextValue(<<"T">>),
      TextValue(<<"T", " ", "-", " ", "A">>),
      TextValue(<<" ", "T", " ", EmDash, " ", "A", " ">>),
      TextValue(<<"T", " ", "-", " ", "A", " ", EmDash, " ", "B">>),
      TextValue(<<"T", " ", "-", " ", " ", EnDash, " ", "B">>) }
OgArtists == { Absent, TextValue(<<>>), TextValue(<<" ">>), TextValue(<<" ", "X">>) }
OgDurations == { Absent, TextValue(<<"2", "2", "5">>), TextValue(<<"x">>) }
OgTagSets ==
    { OgTags(t, a, Absent) : t \in OgTitles, a \in OgArtists }
    \cup { OgTags(t, Absent, d) : t \in OgTitles, d \in OgDurations }

\* OpenGraphParser.can_parse
og_can_parse(tags) == tags.title.present

\* OpenGraphParser._parse_duration
og_parse_duration(tags) ==
    IF ~tags.duration.present \/ tags.duration.text = <<>> THEN UNKNOWN_DURATION
    ELSE IF DigitsEnd(tags.duration.text, 1) = Len(tags.duration.text) + 1
         THEN LET seconds == CHOOSE n \in 0..999 : format_int(n) = tags.duration.text
              IN format_int(seconds \div 60) \o <<":">> \o format_02d(seconds % 60)
         ELSE UNKNOWN_DURATION

\* artist_name or "Неизвестный артист"
og_artist_or_unknown(artist_name) == IF artist_name = <<>> THEN UNKNOWN_ARTIST ELSE artist_name

\* OpenGraphParser.parse
og_parse(tags, url) ==
    IF ~tags.title.present \/ tags.title.text = <<>> THEN NoTrackInfo
    ELSE LET title == strip(tags.title.text)
             split == og_parse_title(title)
             track_name == split[1]
             artist_name == IF tags.artist.present /\ tags.artist.text # <<>>
                            THEN strip(tags.artist.text)
                            ELSE split[2]
         IN IF track_name = <<>> THEN NoTrackInfo
            ELSE TrackInfoFields(track_name, og_artist_or_unknown(artist_name),
                                 og_parse_duration(tags), url, OpenGraph)

\* og:title contents made of up to three words and the joints between them:
\* the three separators, a hyphen without spaces, a space, nothing.
OgTitleJoints ==
    { <<" ", EmDash, " ">>, <<" ", "-", " ">>, <<" ", EnDash, " ">>, <<"-">>, <<" ">>, <<>> }
OgTitleTexts ==
    { w1 \o j1 \o w2 \o j2 \o w3 :
        w1 \in {<<>>, <<"T">>}, j1 \in OgTitleJoints,
        w2 \in {<<>>, <<"A">>}, j2 \in OgTitleJoints, w3 \in {<<>>, <<"B">>} }
OgTitleInputs ==
    { OgTags(t, a, Absent) : t \in {Absent} \cup { TextValue(x) : x \in OgTitleTexts },
                             a \in OgArtists }

\* OpenGraphParser().parse(soup, url) is called on a page with these tags.
call_og_parse(tags, url) ==
    /\ ~applied.called
    /\ applied' = [called |-> TRUE, fn |-> "OpenGraphParser.parse", arg |-> tags,
                   out |-> og_parse(tags, url)]
    /\ UNCHANGED <<flow, cacheVars, now, cascadeVars, max_retries, validated, stored>>

NextOgTitle == ~applied.called /\ \E tags \in OgTitleInputs, url \in Urls : call_og_parse(tags, url)

SpecOgTitle == Init /\ [][NextOgTitle]_vars

\* What the selectors of one field find: the texts of the elements, in
\* selector order.
HtmlElements(track_name, artist, duration) ==
    [track_name |-> track_name, artist |-> artist, duration |-> duration]
HtmlTrackNames == { <<>>, << <<>> >>, << <<"T">> >>, << <<" ">>, <<" ", "T">> >> }
HtmlArtists ==
    { <<>>, << <<"A">> >>, << <<" ", "A">>, <<"B">> >>, << <<>> >>, << <<>>, <<" ">> >> }
HtmlDurations == { <<>>, << <<"3", ":", "4", "5">> >> }
HtmlElementSets ==
    { HtmlElements(t, a, <<>>) : t \in HtmlTrackNames, a \in HtmlArtists }
    \cup { HtmlElements(t, <<>>, d) : t \in HtmlTrackNames, d \in HtmlDurations }

\* HtmlCssParser._extract_by_selectors: the first text that is not blank,
\* NoneValue if there is none.
RECURSIVE extract_by_selectors(_)
extract_by_selectors(texts) ==
    IF texts = <<>> THEN NoneValue
    ELSE IF strip(texts[1]) # <<>> THEN strip(texts[1])
    ELSE extract_by_selectors(Tail(texts))

\* [a.get_text(strip=True) for a in artist_elements]
texts_of(elements) == [i \in 1..Len(elements) |-> strip(elements[i])]

\* HtmlCssParser.parse
html_css_parse(elements, url) ==
    LET track_name == extract_by_selectors(elements.track_name)
        artist_name == IF elements.artist # <<>>
                       THEN join(CommaSpace, texts_of(elements.artist))
                       ELSE UNKNOWN_ARTIST
        found == extract_by_selectors(elements.duration)
        duration == IF found = NoneValue THEN UNKNOWN_DURATION ELSE found
    IN IF track_name = NoneValue THEN NoTrackInfo
       ELSE TrackInfoFields(track_name, artist_name, duration, url, HtmlCss)

\* BeautifulSoup(html, 'lxml'): the parts of the page the strategies read.
Soup(json_ld, og, html) == [json_ld |-> json_ld, og |-> og, html |-> html]
Soups == { Soup(j, o, h) : j \in JsonLdBlocks, o \in OgTagSets, h \in HtmlElementSets }

\* parser.can_parse(soup); HtmlCssParser keeps BaseParser.can_parse.
can_parse(p, soup) ==
    CASE p = JsonLd -> json_ld_can_parse(soup.json_ld)
      [] p = OpenGraph -> og_can_parse(soup.og)
      [] p = HtmlCss -> TRUE

\* parser.parse(soup, url)
parse(p, soup, url) ==
    CASE p = JsonLd -> json_ld_parse(soup.json_ld, url)
      [] p = OpenGraph -> og_parse(soup.og, url)
      [] p = HtmlCss -> html_css_parse(soup.html, url)

\* What each strategy does on this soup.
page_of(soup, url) ==
    [p \in Strategies |->
        IF ~can_parse(p, soup) THEN "inapplicable"
        ELSE IF parse(p, soup, url) = NoTrackInfo THEN "decline"
        ELSE "ok"]

\* CascadeParser.parse(html, url) with the record the winning strategy built.
cascade_parser_parse_soup(soup, url) ==
    LET out == cascade_parse(parsers, page_of(soup, url), url) IN
    /\ ~applied.called
    /\ cascadePage' = page_of(soup, url)
    /\ cascadeLog' = out.log
    /\ cascadeOut' = [called |-> TRUE, result |-> out.result, raised |-> out.raised]
    /\ applied' = [called |-> TRUE, fn |-> "CascadeParser.parse", arg |-> soup,
                   out |-> IF out.result = NoRecord THEN NoTrackInfo
                           ELSE parse(out.result.by, soup, url)]
    /\ UNCHANGED <<flow, cacheVars, now, registered, parsers, max_retries, validated, stored>>

NextSoup == ~applied.called /\ \E soup \in Soups, url \in Urls : cascade_parser_parse_soup(soup, url)

SpecSoup == Init /\ [][NextSoup]_vars

----------------------------------------------------------------------------
(* handle_message (handlers/common.py): concurrent handler runs on the one
   module-level YandexMusicParser *)

Letters ==
    {"a", "b", "c", "d", "e", "f", "g", "h", "i", "j", "k", "l", "m", "n", "o", "p", "q",
     "r", "s", "t", "u", "v", "w", "x", "y", "z"}
SchemeChars == Letters \cup Digits \cup {"+", "-", "."}

\* urlparse(url).netloc for any text: after a scheme, if there is one, what
\* follows '//' up to the first of '/', '?' and '#'.
urlsplit_netloc(url) ==
    LET colons == { i \in 1..Len(url) : url[i] = ":" }
        c == IF colons = {} THEN 0 ELSE CHOOSE i \in colons : \A j \in colons : i <= j
        has_scheme == /\ c > 1
                      /\ url[1] \in Letters
                      /\ \A i \in 1..(c - 1) : url[i] \in SchemeChars
        rest == IF has_scheme THEN SubSeq(url, c + 1, Len(url)) ELSE url
        stops == { i \in 3..Len(rest) : rest[i] \in {"/", "?", "#"} }
        to == IF stops = {} THEN Len(rest) + 1 ELSE CHOOSE i \in stops : \A j \in stops : i <= j
    IN IF StartsWith(rest, <<"/", "/">>) THEN SubSeq(rest, 3, to - 1) ELSE <<>>

\* is_yandex_music_url
is_yandex_music_url(url) == StartsWith(urlsplit_netloc(strip(url)), MusicYandexDot)

\* A key with the two ids in the wrong order.
cache_key_swapped(album_id, track_id) == track_id \o <<":">> \o album_id

\* f"{album_id}:{track_id}"
cache_key(album_id, track_id) == album_id \o <<":">> \o track_id

\* message.text of the messages users send.
HandlerMessages ==
    << <<"h", "t", "t", "p", "s", ":", "/", "/", "m", "u", "s", "i", "c", ".", "y", "a", "n", "d", "e", "x", ".", "r", "u", "/", "a", "l", "b", "u", "m", "/", "1", "2", "/", "t", "r", "a", "c", "k", "/", "3", "4">>,
       <<" ", "h", "t", "t", "p", ":", "/", "/", "m", "u", "s", "i", "c", ".", "y", "a", "n", "d", "e", "x", ".", "k", "z", "/", "a", "l", "b", "u", "m", "/", "1", "2", "/", "t", "r", "a", "c", "k", "/", "3", "4", "?", "a", " ">>,
       <<"h", "t", "t", "p", "s", ":", "/", "/", "m", "u", "s", "i", "c", ".", "y", "a", "n", "d", "e", "x", ".", "r", "u", "/", "a", "l", "b", "u", "m", "/", "3", "4", "/", "t", "r", "a", "c", "k", "/", "1", "2">>,
       <<"h", "i">>,
       <<"f", "t", "p", ":", "/", "/", "m", "u", "s", "i", "c", ".", "y", "a", "n", "d", "e", "x", ".", "r", "u", "/", "a", "l", "b", "u", "m", "/", "1", "2", "/", "t", "r", "a", "c", "k", "/", "3", "4">>,
       <<"h", "t", "t", "p", "s", ":", "/", "/", "m", "u", "s", "i", "c", ".", "y", "a", "n", "d", "e", "x", ".", "r", "u", "/", "a", "l", "b", "u", "m", "/", "1", "2">> >>

\* The URLs and cache keys in play, numbered: get_track_info and the cache
\* hold a URL or a key as its number here (0: not in the table).
TrackUrlTexts ==
    << <<"h", "t", "t", "p", "s", ":", "/", "/", "m", "u", "s", "i", "c", ".", "y", "a", "n", "d", "e", "x", ".", "r", "u", "/", "a", "l", "b", "u", "m", "/", "1", "2", "/", "t", "r", "a", "c", "k", "/", "3", "4">>,
       <<"h", "t", "t", "p", ":", "/", "/", "m", "u", "s", "i", "c", ".", "y", "a", "n", "d", "e", "x", ".", "k", "z", "/", "a", "l", "b", "u", "m", "/", "1", "2", "/", "t", "r", "a", "c", "k", "/", "3", "4", "?", "a">>,
       <<"h", "t", "t", "p", "s", ":", "/", "/", "m", "u", "s", "i", "c", ".", "y", "a", "n", "d", "e", "x", ".", "r", "u", "/", "a", "l", "b", "u", "m", "/", "3", "4", "/", "t", "r", "a", "c", "k", "/", "1", "2">> >>
CacheKeyTexts == << <<"1", "2", ":", "3", "4">>, <<"3", "4", ":", "1", "2">> >>
number_of(table, text) ==
    IF \E i \in 1..Len(table) : table[i] = text
    THEN CHOOSE i \in 1..Len(table) : table[i] = text
    ELSE 0

\* A validation whose failure is not noticed.
validation_never_raises(ids) == FALSE

\* validate_yandex_music_url raises a ValidationError.
validation_raises(ids) == ~ids.ok

\* The handler has answered without calling the parser.
answered(m, via, error) ==
    [IdleFlow EXCEPT !.pc = "done", !.msg = m, !.via = via, !.error = error]

\* handle_message up to its first await: the pre-filter, the validation, the
\* cache key; then send_chat_action is awaited.
handle_message(f, m) ==
    LET url == strip(HandlerMessages[m])
        ids == validate_yandex_music_url(url)
    IN
    /\ flow[f].pc = "idle"
    /\ flow' = [flow EXCEPT ![f] =
          IF ~is_yandex_music_url(url) THEN answered(m, "hint", NoError)
          ELSE IF validation_raises(ids)
               THEN answered(m, "validation", BotError("ValidationError", ids.error, 0))
          ELSE [IdleFlow EXCEPT !.pc = "typing", !.msg = m,
                                !.url = number_of(TrackUrlTexts, url),
                                !.key = number_of(CacheKeyTexts,
                                                  cache_key(ids.album_id, ids.track_id))]]
    /\ UNCHANGED <<now, cacheVars, cascadeVars, otherVars>>

\* A parser that takes a call only while no other call is waiting.
send_chat_action_returns_serial(f) ==
    /\ flow[f].pc = "typing"
    /\ \A g \in Flows \ {f} : flow[g].pc \notin {"get", "sleep_backoff", "sleep_retry_after"}
    /\ get_track_info_body(f, flow[f].url, flow[f].key)

\* send_chat_action has returned: parser.get_track_info(url, track_id=cache_key).
send_chat_action_returns(f) ==
    /\ flow[f].pc = "typing"
    /\ get_track_info_body(f, flow[f].url, flow[f].key)

\* send_chat_action raises: the handler's last except clause answers.
send_chat_action_raises(f) ==
    /\ flow[f].pc = "typing"
    /\ flow' = [flow EXCEPT ![f] =
                  answered(flow[f].msg, "typing", BotError("raw", "Exception", 0))]
    /\ UNCHANGED <<now, cacheVars, cascadeVars, otherVars>>

\* Pages that stand for their kinds: the first strategy succeeds, only the
\* last one does, none does.
HandlerPages ==
    { [s \in Strategies |-> "ok"],
      [s \in Strategies |-> IF s = HtmlCss THEN "ok" ELSE "decline"],
      ErrorPage }
HandlerResponses ==
    { resp \in Responses : \/ resp.status = 200 /\ resp.page \in HandlerPages
                           \/ resp.status = 503 }

NextHandler ==
    \/ \E f \in Flows, m \in 1..Len(HandlerMessages) : handle_message(f, m)
    \/ \E f \in Flows : send_chat_action_returns(f)
    \/ \E f \in Flows : send_chat_action_raises(f)
    \/ \E f \in Flows, resp \in HandlerResponses : client_get_responds(f, resp)
    \/ \E f \in Flows : sleep_backoff_ends(f)
    \/ \E f \in Flows : call_returns(f)
    \/ tick

SpecHandler == Init /\ [][NextHandler]_vars

----------------------------------------------------------------------------
(* Properties *)

Range(s) == { s[i] : i \in 1..Len(s) }

Started(f) == flow[f].pc = "idle" /\ flow'[f].pc # "idle"
Done(f) == flow[f].pc = "done"

\* C1: once a response has an error status outside the retryable set, the
\* call issues no further request and fails with the HTTP error of that status.
C1_TerminalStatusEndsFetch ==
    \A f \in Flows :
        flow[f].terminal_status # 0 =>
            /\ Done(f)
            /\ flow[f].error = BotError("HttpError",
                                        get_http_error(flow[f].terminal_status),
                                        flow[f].terminal_status)

\* C2: one call issues at most max_retries + 1 GET requests, whatever the
\* responses and failures, Retry-After waits included.
C2_RequestsBounded ==
    \A f \in Flows : flow[f].requests <= MAX_RETRIES + 1

\* The last request of a call whose earlier attempts all ended in a
\* Retry-After wait (the only retry that records no exception).
C2_Witness ==
    \E f \in Flows :
        /\ flow[f].pc = "get"
        /\ flow[f].requests = MAX_RETRIES + 1
        /\ flow[f].last_exception = NoException

NumericRetryAfter == { h \in RetryAfterHeaders : ~parse_float_ms(h).none }

\* C3: a numeric Retry-After on a 429 is slept as min(Retry-After, max_delay)
\* and no backoff sleep follows it before the next request.
C3_RetryAfterReplacesBackoff ==
    \A f \in Flows :
        /\ flow[f].pc = "sleep_retry_after" =>
              flow[f].sleeps[Len(flow[f].sleeps)].ms \in
                  { Min(parse_float_ms(h).ms, MaxDelayMs) : h \in NumericRetryAfter }
        /\ flow[f].pc = "sleep_backoff" =>
              \A i \in 1..Len(flow[f].sleeps) : flow[f].sleeps[i].kind # "sleep_retry_after"

LiveValues(k) ==
    { cacheLinks[i].value : i \in { j \in 1..Len(cacheLinks) :
                                      cacheLinks[j].key = k /\ now < cacheLinks[j].expires } }

\* C4: a call whose key has a live entry returns that entry's record at
\* once, with no request and no extraction.
C4_LiveEntryShortCircuits ==
    [][\A f \in Flows :
         (Started(f) /\ flow'[f].key \in Keys /\ LiveValues(flow'[f].key) # {}) =>
            /\ flow'[f].pc = "done"
            /\ flow'[f].error = NoError
            /\ flow'[f].result \in LiveValues(flow'[f].key)
            /\ flow'[f].requests = 0
            /\ flow'[f].extracts = 0]_vars

C4_Witness ==
    \E f \in Flows :
        /\ Done(f) /\ flow[f].via = "cache"
        /\ flow[f].result \in Records
        /\ flow[f].requests = 0 /\ flow[f].extracts = 0

\* C5: a call that succeeds by fetch and extraction leaves its record live
\* in the cache under its key, and the next call with that key, before the
\* ttl has run out and with no clear or other store in between, returns the
\* same record without a request.
C5_StoredThenServed ==
    [][\A f \in Flows :
         /\ (flow[f].pc = "get" /\ flow'[f].pc = "done" /\ flow'[f].error = NoError
               /\ flow'[f].key \in Keys) =>
                \E i \in 1..Len(cacheLinks') :
                    /\ cacheLinks'[i].key = flow'[f].key
                    /\ cacheLinks'[i].value = flow'[f].result
                    /\ now' < cacheLinks'[i].expires
         /\ (Started(f) /\ flow'[f].key \in Keys /\ flow'[f].key = lastPut.key
               /\ now < lastPut.at + CacheTtl) =>
                /\ flow'[f].pc = "done"
                /\ flow'[f].result = lastPut.value
                /\ flow'[f].requests = 0]_vars

C5_Witness ==
    \E f \in Flows :
        /\ Done(f) /\ flow[f].via = "cache"
        /\ flow[f].key = lastPut.key
        /\ flow[f].result = lastPut.value
        /\ flow[f].requests = 0

OkStrategies == { p \in Range(registered) : cascadePage[p] = "ok" }
Best == CHOOSE p \in OkStrategies : \A q \in OkStrategies : priority(p) <= priority(q)

\* C6: whatever the order of registration, strategies are tried in ascending
\* priority number, the result is that of the first one that is applicable
\* and produces a record, and no later strategy is probed or invoked.
C6_FirstInPriorityOrderWins ==
    cascadeOut.called =>
        /\ \A i, j \in 1..Len(cascadeLog) :
              i < j => priority(cascadeLog[i][2]) <= priority(cascadeLog[j][2])
        /\ IF OkStrategies = {}
           THEN cascadeOut.result = NoRecord
           ELSE /\ cascadeOut.result \in Records
                /\ cascadeOut.result.by = Best
                /\ \A i \in 1..Len(cascadeLog) :
                      priority(cascadeLog[i][2]) <= priority(Best)

\* Registered in descending priority; strategy 1 declines, strategy 2
\* succeeds, strategy 3 would succeed too and is never called.
C6_Witness ==
    /\ cascadeOut.called
    /\ registered = <<HtmlCss, OpenGraph, JsonLd>>
    /\ cascadePage[JsonLd] = "decline"
    /\ cascadePage[OpenGraph] = "ok"
    /\ cascadePage[HtmlCss] = "ok"
    /\ cascadeOut.result.by = OpenGraph
    /\ cascadeLog = <<<<"can_parse", JsonLd>>, <<"parse", JsonLd>>,
                      <<"can_parse", OpenGraph>>, <<"parse", OpenGraph>>>>

Faults == {"probe_fault", "parse_fault"}

\* C7: a fault in a strategy's probe or parse counts as a decline: nothing
\* is raised out of the cascade, and every strategy that no successful
\* strategy precedes is still probed.
C7_FaultIsDecline ==
    cascadeOut.called =>
        /\ ~cascadeOut.raised
        /\ \A q \in Range(registered) :
              (\A p \in OkStrategies : priority(q) <= priority(p)) =>
                  \E i \in 1..Len(cascadeLog) : cascadeLog[i] = <<"can_parse", q>>

C7_Witness ==
    /\ cascadeOut.called
    /\ \E p, q \in Range(registered) :
          /\ priority(p) < priority(q)
          /\ cascadePage[p] \in Faults
          /\ cascadeOut.result \in Records
          /\ cascadeOut.result.by = q

\* C8: when no strategy yields a record, get_track_info raises a parsing
\* error; it never returns without a record.
C8_AllFailedRaisesParsingError ==
    \A f \in Flows :
        /\ (Done(f) /\ flow[f].page_failed) =>
              flow[f].error = ParsingError /\ flow[f].result = NoRecord
        /\ (Done(f) /\ flow[f].error = NoError) => flow[f].result \in Records

C8_Witness ==
    \E f \in Flows :
        /\ Done(f) /\ flow[f].page_failed
        /\ flow[f].extracts = 1
        /\ flow[f].error = ParsingError

TypedFamilies == {"HttpError", "NetworkError", "ParsingError"}

\* C9: whatever get_track_info raises is of the bot's taxonomy: an HTTP
\* error with its status code, a network error or a parsing error.
C9_OnlyTypedErrors ==
    \A f \in Flows :
        (Done(f) /\ flow[f].error # NoError) =>
            /\ flow[f].error.family \in TypedFamilies
            /\ flow[f].error.family = "HttpError" => flow[f].error.status # 0

\* The network error a transport failure stands for.
NetworkKind(e) ==
    CASE e.cls = "ConnectTimeout" -> "ConnectTimeoutError"
      [] e.cls = "ReadTimeout" -> "ReadTimeoutError"
      [] e.ssl -> "SSLError"
      [] e.cls = "ConnectError" -> "ConnectionError"
      [] e.cls = "RemoteProtocolError" -> "RemoteProtocolError"
      [] OTHER -> "other"

\* C10: a transport failure is retried while attempts remain, and a call
\* whose every attempt failed in transport raises the network error of the
\* failure: connect timeout, read timeout, connection, TLS or protocol.
C10_TransportFailureKinds ==
    \A f \in Flows :
        (Done(f) /\ flow[f].only_transport /\ NetworkKind(flow[f].last_failure) # "other") =>
            /\ flow[f].requests = MAX_RETRIES + 1
            /\ flow[f].error = BotError("NetworkError", NetworkKind(flow[f].last_failure), 0)

\* C11: a call whose every attempt was answered with a retryable status ends
\* after exactly max_retries + 1 requests with the HTTP error of the final
\* response's status, carrying that status; a call whose last response had a
\* retryable status never returns a record.
C11_RetryableExhausted ==
    \A f \in Flows :
        /\ (Done(f) /\ flow[f].requests >= 1 /\ flow[f].all_retryable) =>
              /\ flow[f].requests = MAX_RETRIES + 1
              /\ flow[f].error = BotError("HttpError",
                                          get_http_error(flow[f].last_status),
                                          flow[f].last_status)
        /\ (Done(f) /\ flow[f].last_status \in RETRY_ON_STATUS) =>
              /\ flow[f].result = NoRecord
              /\ flow[f].error.family = "HttpError"

\* Three answers 503, two backoff waits, then ServiceUnavailableError(503).
C11_Witness ==
    \E f \in Flows :
        /\ Done(f) /\ flow[f].all_retryable
        /\ flow[f].requests = MAX_RETRIES + 1
        /\ flow[f].last_status = 503
        /\ flow[f].error = BotError("HttpError", "ServiceUnavailableError", 503)

\* The error kinds the specification lists by status.
HttpKindTable ==
    { <<400, "BadRequestError">>, <<403, "ForbiddenError">>, <<404, "TrackNotFoundError">>,
      <<410, "TrackDeletedError">>, <<429, "RateLimitError">>, <<500, "ServerError">>,
      <<502, "BadGatewayError">>, <<503, "ServiceUnavailableError">>,
      <<504, "GatewayTimeoutError">> }

HttpKind(status) ==
    IF \E p \in HttpKindTable : p[1] = status
    THEN (CHOOSE p \in HttpKindTable : p[1] = status)[2]
    ELSE "ServerError"

NonSuccessStatuses == { s \in 100..599 : ~is_success(s) }

\* C12: the status-to-kind mapping is total over the non-2xx statuses and is
\* the listed table with ServerError for every other status; a call that
\* ends on a non-2xx response raises that kind, carrying the status.
C12_StatusToKind ==
    /\ \A s \in NonSuccessStatuses : get_http_error(s) = HttpKind(s)
    /\ \A f \in Flows :
          (Done(f) /\ flow[f].last_status \in NonSuccessStatuses) =>
              flow[f].error = BotError("HttpError", HttpKind(flow[f].last_status),
                                       flow[f].last_status)

\* A status the table does not list ends as ServerError carrying 418.
C12_Witness ==
    \E f \in Flows :
        /\ Done(f) /\ flow[f].last_status = 418
        /\ flow[f].error = BotError("HttpError", "ServerError", 418)

\* The wait a flow is in.
Slept(f) == flow[f].sleeps[Len(flow[f].sleeps)].ms

WithinJitter(ms, base) ==
    /\ ms >= 0
    /\ ms >= base - (base * JitterPct) \div 100
    /\ ms <= base + (base * JitterPct) \div 100

\* C13 as stated: with attempts numbered from 1, the backoff before attempt
\* n >= 2 is min(max_delay, initial_delay * multiplier^(n-1)) within the
\* jitter, never negative, and none is slept before attempt 1.
C13_BackoffAsStated ==
    \A f \in Flows :
        flow[f].pc = "sleep_backoff" =>
            /\ flow[f].requests >= 1
            /\ WithinJitter(Slept(f),
                   Min(MaxDelayMs, InitialDelayMs * Pow(Multiplier, flow[f].requests)))

\* C13 amended: with attempts numbered from 1, the backoff before attempt
\* n >= 2 is min(max_delay, initial_delay * multiplier^(n-2)) within the
\* jitter (the first retry waits initial_delay), never negative, and none is
\* slept before attempt 1.
C13_BackoffBeforeRetry ==
    \A f \in Flows :
        flow[f].pc = "sleep_backoff" =>
            /\ flow[f].requests >= 1
            /\ WithinJitter(Slept(f),
                   Min(MaxDelayMs, InitialDelayMs * Pow(Multiplier, flow[f].requests - 1)))

\* The wait before attempt 8: 1000 * 2^6 ms is over max_delay, so the base
\* is max_delay.
C13_Witness ==
    \E f \in Flows :
        /\ flow[f].pc = "sleep_backoff"
        /\ flow[f].requests = LongRetries
        /\ InitialDelayMs * Pow(Multiplier, flow[f].requests - 1) > MaxDelayMs
        /\ Slept(f) = MaxDelayMs

\* C14: whatever gets, sets, clears, stats and ticks went before, the cache
\* holds at most maxsize entries, expired ones not yet dropped included.
C14_SizeBounded == Len(cacheLinks) <= CacheMaxsize

\* A set into a full cache of live entries of other keys.
C14_Witness ==
    /\ putNote.evicted
    /\ Len(cacheLinks) = CacheMaxsize
    /\ cacheLinks[Len(cacheLinks)].key = lastPut.key

GetStep == gets' = gets + 1
LatestPutLive == lastPut # NoPut /\ now < lastPut.at + CacheTtl

\* C15: a get of the key of the latest set (so neither evicted, overwritten
\* nor cleared since), made before ttl has elapsed, returns the record that
\* was set and counts as a hit.
C15_GetAfterPut ==
    [][(GetStep /\ lastGet'.key = lastPut.key /\ LatestPutLive) =>
           /\ lastGet'.result = lastPut.value
           /\ hits' = hits + 1
           /\ misses' = misses]_vars

C15_Witness ==
    /\ lastGet.called /\ lastGet.key = lastPut.key
    /\ lastGet.result \in Records
    /\ lastGet.result = lastPut.value
    /\ LatestPutLive
    /\ hits >= 1

LiveCount == Cardinality({ i \in 1..Len(cacheLinks) : now < cacheLinks[i].expires })

\* C16: once ttl has elapsed since the latest set of a key, a get of it
\* returns nothing and counts as a miss, reads in between or not, and the
\* size stats reports counts no expired entry.
C16_ExpiredIsAbsent ==
    [][/\ (GetStep /\ lastGet'.key = lastPut.key /\ lastPut # NoPut
             /\ now >= lastPut.at + CacheTtl) =>
               /\ lastGet'.result = NoRecord
               /\ misses' = misses + 1
               /\ hits' = hits
       /\ (statsOut' # statsOut) => statsOut'.size = LiveCount]_vars

\* The key was read at a later tick than its set, then missed after ttl; a
\* stats call after the expiry reported no entry.
C16_Witness ==
    /\ lastPut # NoPut /\ putNote.read
    /\ now >= lastPut.at + CacheTtl
    /\ lastGet.called /\ lastGet.key = lastPut.key /\ lastGet.result = NoRecord
    /\ statsOut.called /\ statsOut.at >= lastPut.at + CacheTtl /\ statsOut.size = 0

\* C17: every get adds one to exactly one counter, hits iff it returned a
\* record, so hits + misses is the number of gets since construction or the
\* last reset; set, clear, stats and ticks change no counter; reset zeroes
\* the counters and leaves the entries as they are.
C17_CountersCountGets ==
    [][/\ hits + misses = gets /\ hits' + misses' = gets'
       /\ GetStep =>
             IF lastGet'.result # NoRecord
             THEN hits' = hits + 1 /\ misses' = misses
             ELSE misses' = misses + 1 /\ hits' = hits
       /\ gets' = gets => (hits' = hits /\ misses' = misses)
       /\ (~GetStep /\ gets' # gets) =>
             (hits' = 0 /\ misses' = 0 /\ cacheLinks' = cacheLinks)]_vars

\* A hit and a miss counted, with the cache holding an entry.
C17_Witness ==
    /\ hits >= 1 /\ misses >= 1
    /\ gets = hits + misses
    /\ lastGet.called
    /\ cacheLinks # <<>>

\* The host of an http(s) URL as RFC 3986 has it: the authority without its
\* userinfo (up to the last "@") and its port (from the ":").
UrlHost(url) ==
    LET netloc == urlparse_netloc(url)
        ats == { i \in 1..Len(netloc) : netloc[i] = "@" }
        hostport == IF ats = {} THEN netloc
                    ELSE SubSeq(netloc, (CHOOSE i \in ats : \A j \in ats : i >= j) + 1,
                                Len(netloc))
        colons == { i \in 1..Len(hostport) : hostport[i] = ":" }
    IN IF colons = {} THEN hostport
       ELSE SubSeq(hostport, 1, (CHOOSE i \in colons : \A j \in colons : i <= j) - 1)

\* The path of an http(s) URL: what follows the authority up to "?" or "#".
UrlPath(url) ==
    LET from == (IF StartsWith(url, HttpsScheme) THEN Len(HttpsScheme) ELSE Len(HttpScheme))
                + Len(urlparse_netloc(url)) + 1
        stops == { i \in from..Len(url) : url[i] \in {"?", "#"} }
        to == IF stops = {} THEN Len(url) + 1
              ELSE CHOOSE i \in stops : \A j \in stops : i <= j
    IN SubSeq(url, from, to - 1)

\* The digits that follow the first seg in s.
DigitsFollowing(s, seg) ==
    LET at == { i \in 1..Len(s) : MatchAt(s, i, seg) }
        i0 == CHOOSE i \in at : \A j \in at : i <= j
    IN IF at = {} THEN <<>>
       ELSE SubSeq(s, i0 + Len(seg), DigitsEnd(s, i0 + Len(seg)) - 1)

ValidatedUrl == strip(validated.url)

\* C18: for an accepted URL the returned album and track ids are the digit
\* strings that follow /album/ and /track/ in its path, character for
\* character, leading zeros and long strings included.
C18_IdsAreThePathDigits ==
    (validated.called /\ validated.out.ok) =>
        /\ validated.out.album_id = DigitsFollowing(UrlPath(ValidatedUrl), AlbumSegment)
        /\ validated.out.track_id = DigitsFollowing(UrlPath(ValidatedUrl), TrackSegment)
        /\ validated.out.album_id # <<>>
        /\ validated.out.track_id # <<>>

\* An accepted URL with album 007 and a track id of twenty digits.
C18_Witness ==
    /\ validated.called /\ validated.out.ok
    /\ validated.out.album_id = <<"0", "0", "7">>
    /\ Len(validated.out.track_id) = 20
    /\ validated.out.track_id[1] = "0"

\* C19: an http(s) URL whose host is not empty and does not start with
\* music.yandex. is refused as WrongService when the host contains yandex
\* and as WrongDomain otherwise.
C19_ForeignHostKinds ==
    (/\ validated.called
     /\ has_http_scheme(ValidatedUrl)
     /\ UrlHost(ValidatedUrl) # <<>>
     /\ ~StartsWith(UrlHost(ValidatedUrl), MusicYandexDot)) =>
        /\ ~validated.out.ok
        /\ validated.out.error = IF Contains(UrlHost(ValidatedUrl), YandexBrand)
                                 THEN "WrongServiceError" ELSE "WrongDomainError"

PathShapeErrors == {"AlbumUrlError", "ArtistUrlError", "PlaylistUrlError", "InvalidTrackIdError"}

\* C20: the scheme is checked before anything else, and a URL whose host
\* does not start with music.yandex. is never refused as an album, artist
\* or playlist link or for its track id, whatever its path holds.
C20_DomainBeforePath ==
    validated.called =>
        /\ ~has_http_scheme(ValidatedUrl) => validated.out.error = "NotUrlError"
        /\ (has_http_scheme(ValidatedUrl)
              /\ ~StartsWith(UrlHost(ValidatedUrl), MusicYandexDot)) =>
                 validated.out.error \notin PathShapeErrors

\* A path of the form /album/<digits>/track/<digits> and nothing more.
TrackPathShape(p) ==
    LET a1 == 1 + Len(AlbumSegment)
        a2 == DigitsEnd(p, a1)
        t1 == a2 + Len(TrackSegment)
        t2 == DigitsEnd(p, t1)
    IN /\ MatchAt(p, 1, AlbumSegment)
       /\ a2 > a1
       /\ MatchAt(p, a2, TrackSegment)
       /\ t2 > t1
       /\ t2 = Len(p) + 1

\* The URL has no fragment: after its path comes nothing or a query string.
PathThenQueryOnly(url) == \A i \in 1..Len(url) : url[i] # "#"

\* C21: an http(s) URL whose host starts with music.yandex. and whose path
\* is /album/<digits>/track/<digits>, with or without a query string, is
\* accepted and yields the two digit strings of its path.
C21_TrackUrlAccepted ==
    (/\ validated.called
     /\ has_http_scheme(ValidatedUrl)
     /\ StartsWith(UrlHost(ValidatedUrl), MusicYandexDot)
     /\ TrackPathShape(UrlPath(ValidatedUrl))
     /\ PathThenQueryOnly(ValidatedUrl)) =>
        /\ validated.out.ok
        /\ validated.out.album_id = DigitsFollowing(UrlPath(ValidatedUrl), AlbumSegment)
        /\ validated.out.track_id = DigitsFollowing(UrlPath(ValidatedUrl), TrackSegment)

\* The URL is on the music site: http(s) and a host that starts with music.yandex.
OnTargetSite(url) == has_http_scheme(url) /\ StartsWith(UrlHost(url), MusicYandexDot)

\* A path /album/<digits> with or without one trailing slash.
AlbumPathShape(p) ==
    LET d == DigitsEnd(p, 1 + Len(AlbumSegment)) IN
    /\ MatchAt(p, 1, AlbumSegment)
    /\ d > 1 + Len(AlbumSegment)
    /\ (d = Len(p) + 1 \/ (d = Len(p) /\ p[d] = "/"))

\* A path that starts /artist/<digits>.
ArtistPathShape(p) ==
    MatchAt(p, 1, ArtistSegment) /\ DigitsEnd(p, 1 + Len(ArtistSegment)) > 1 + Len(ArtistSegment)

\* A path that starts /users/<name>/playlists/<digits>.
PlaylistPathShape(p) ==
    /\ MatchAt(p, 1, UsersSegment)
    /\ \E j \in (1 + Len(UsersSegment))..Len(p) :
          /\ MatchAt(p, j, PlaylistsSegment)
          /\ DigitsEnd(p, j + Len(PlaylistsSegment)) > j + Len(PlaylistsSegment)

\* C22: on the music site an album link is refused with AlbumUrlError, an
\* artist link with ArtistUrlError and a playlist link with PlaylistUrlError,
\* and none of the three is accepted as a track.
C22_OtherPagesRefused ==
    (validated.called /\ OnTargetSite(ValidatedUrl)) =>
        /\ AlbumPathShape(UrlPath(ValidatedUrl)) =>
              (~validated.out.ok /\ validated.out.error = "AlbumUrlError")
        /\ ArtistPathShape(UrlPath(ValidatedUrl)) =>
              (~validated.out.ok /\ validated.out.error = "ArtistUrlError")
        /\ PlaylistPathShape(UrlPath(ValidatedUrl)) =>
              (~validated.out.ok /\ validated.out.error = "PlaylistUrlError")

\* The artist objects of a byArtist value: the object itself, or the
\* objects of the list in their order.
ArtistObjects(by_artist) ==
    IF by_artist.type = "dict" THEN <<by_artist.dict>>
    ELSE IF by_artist.type = "list" THEN by_artist.list
    ELSE <<>>

\* The usable names of a sequence of artist objects, in their order: the
\* name texts, trimmed, that are not blank.
RECURSIVE UsableNames(_)
UsableNames(objects) ==
    IF objects = <<>> THEN <<>>
    ELSE LET o == objects[1]
             n == IF o.is_dict /\ o.has_name /\ o.name_is_str THEN strip(o.name) ELSE <<>>
         IN (IF n # <<>> THEN <<n>> ELSE <<>>) \o UsableNames(Tail(objects))

\* Every name that is present is a text.
NamesAreTexts(by_artist) ==
    \A i \in 1..Len(ArtistObjects(by_artist)) :
        LET o == ArtistObjects(by_artist)[i] IN (o.is_dict /\ o.has_name) => o.name_is_str

\* names[i], names[i+1], ... each preceded by ", ".
RECURSIVE EachAfterComma(_, _)
EachAfterComma(names, i) ==
    IF i > Len(names) THEN <<>>
    ELSE <<",", " ">> \o names[i] \o EachAfterComma(names, i + 1)

RECURSIVE DigitsValue(_)
DigitsValue(t) ==
    IF t = <<>> \/ \E i \in 1..Len(t) : t[i] \notin Digits THEN 0 - 1
    ELSE LET d == CHOOSE k \in 0..9 : DigitChars[k + 1] = t[Len(t)] IN
         IF Len(t) = 1 THEN d ELSE (10 * DigitsValue(SubSeq(t, 1, Len(t) - 1))) + d

\* The whole seconds of a well-formed duration without years.
WholeSeconds(v) == (v.days * 86400) + (v.hours * 3600) + (v.minutes * 60) + v.seconds

AppliedDuration == applied.called /\ applied.fn = "parse_iso_duration"

\* C25: a well-formed duration of S >= 0 whole seconds converts to
\* floor(S/60), ":" and S mod 60 in two digits, minutes not wrapped at 60;
\* malformed or missing input, a value that is not a text included, converts
\* to the sentinel and nothing is raised.
C25_DurationConversion ==
    AppliedDuration =>
        LET v == applied.arg
            t == applied.out.value
        IN /\ applied.out.raised = "none"
           /\ (v.type = "duration" /\ ~v.negative /\ v.years = 0) =>
                 /\ Len(t) >= 4
                 /\ t[Len(t) - 2] = ":"
                 /\ DigitsValue(SubSeq(t, 1, Len(t) - 3)) = WholeSeconds(v) \div 60
                 /\ DigitsValue(SubSeq(t, Len(t) - 1, Len(t))) = WholeSeconds(v) % 60
           /\ v.type # "duration" => t = UNKNOWN_DURATION

AppliedCascade == applied.called /\ applied.fn = "CascadeParser.parse"

\* C23: every record the cascade returns, whichever strategy built it, has a
\* name that is not empty and an artist that is not empty.
C23_NameAndArtistNotEmpty ==
    (AppliedCascade /\ applied.out # NoTrackInfo) =>
        /\ applied.out.name # <<>>
        /\ applied.out.artist # <<>>

\* The identifier that follows the first seg in s, up to the next "/", "?"
\* or "#" or the end.
IdFollowing(s, seg) ==
    LET at == { i \in 1..Len(s) : MatchAt(s, i, seg) }
        i0 == CHOOSE i \in at : \A j \in at : i <= j
        from == i0 + Len(seg)
        stops == { i \in from..Len(s) : s[i] \in {"/", "?", "#"} }
        to == IF stops = {} THEN Len(s) + 1 ELSE CHOOSE i \in stops : \A j \in stops : i <= j
    IN IF at = {} THEN <<>> ELSE SubSeq(s, from, to - 1)

PurelyNumeric(id) == id # <<>> /\ \A i \in 1..Len(id) : id[i] \in Digits

\* C28: on the music site, a URL that matches none of the four patterns is
\* refused with AlbumUrlError when it contains /album/ and not /track/, else
\* with InvalidTrackIdError when it contains /track/, else with
\* WrongServiceError; and InvalidTrackIdError is raised only for a URL that
\* contains /track/ and has an album or track id that is not purely numeric.
C28_FallbackKinds ==
    validated.called =>
        /\ (/\ OnTargetSite(ValidatedUrl)
            /\ ~YANDEX_MUSIC_ALBUM_PATTERN(ValidatedUrl)
            /\ ~YANDEX_MUSIC_ARTIST_PATTERN(ValidatedUrl)
            /\ ~YANDEX_MUSIC_PLAYLIST_PATTERN(ValidatedUrl)
            /\ ~YANDEX_MUSIC_TRACK_PATTERN(ValidatedUrl).matched) =>
               validated.out.error =
                  IF Contains(ValidatedUrl, AlbumSegment) /\ ~Contains(ValidatedUrl, TrackSegment)
                  THEN "AlbumUrlError"
                  ELSE IF Contains(ValidatedUrl, TrackSegment) THEN "InvalidTrackIdError"
                  ELSE "WrongServiceError"
        /\ validated.out.error = "InvalidTrackIdError" =>
               /\ Contains(ValidatedUrl, TrackSegment)
               /\ \/ ~PurelyNumeric(IdFollowing(ValidatedUrl, AlbumSegment))
                  \/ ~PurelyNumeric(IdFollowing(ValidatedUrl, TrackSegment))

ReturnedFromCache(f) == flow[f].pc = "done" /\ flow[f].via = "cache"

\* C26: while handler runs interleave on the one parser, the cache never
\* holds more than maxsize entries, hits + misses is the number of lookups
\* all runs made, and a record a run got from the cache is one that a run
\* stored under that same key.
C26_SharedCacheConsistent ==
    /\ Len(cacheLinks) <= CacheMaxsize
    /\ hits + misses = gets
    /\ \A f \in Flows :
          ReturnedFromCache(f) => <<flow[f].key, flow[f].result>> \in stored

\* One run has stored a record and not yet answered; the other run, sent
\* another URL of the same track, got that record from the cache.
C26_Witness ==
    \E f, g \in Flows :
        /\ f # g
        /\ ReturnedFromCache(f)
        /\ flow[g].pc = "done" /\ flow[g].via = "fetch" /\ flow[g].error = NoError
        /\ flow[g].requests > 1
        /\ flow[f].key = flow[g].key
        /\ flow[f].msg # flow[g].msg
        /\ flow[f].result = flow[g].result
        /\ hits = 1 /\ misses = 1

\* C27: a record is in the cache only under the key made of the album and
\* track ids that validate_yandex_music_url finds in the record's own URL.
C27_KeyIsOfTheRecordsUrl ==
    \A i \in 1..Len(cacheLinks) :
        LET K == cacheLinks[i].key
            r == cacheLinks[i].value
            ids == validate_yandex_music_url(TrackUrlTexts[r.url])
        IN /\ r.url \in 1..Len(TrackUrlTexts)
           /\ K \in 1..Len(CacheKeyTexts)
           /\ ids.ok
           /\ CacheKeyTexts[K] = ids.album_id \o <<":">> \o ids.track_id

\* Records of two URLs of one track and of a URL of another track have been
\* stored, and the cache holds one of them.
C27_Witness ==
    /\ cacheLinks # <<>>
    /\ \E p, q \in stored : p[1] # q[1] /\ p[2].url # q[2].url
    /\ \E p \in stored : TrackUrlTexts[p[2].url][5] = ":"

\* The text passes the pre-filter and then the validation.
PassesBothGates(text) ==
    /\ is_yandex_music_url(strip(text))
    /\ validate_yandex_music_url(strip(text)).ok

\* C29: only a message that passes is_yandex_music_url and then
\* validate_yandex_music_url leads to a cache lookup or a request; for any
\* other message the handler answers at once, with no request, no sleep and
\* no lookup, and leaves the cache and its counters as they were.
C29_GatesBeforeFetch ==
    [][\A f \in Flows :
         LET r == flow'[f] IN
         /\ (\/ r.requests > flow[f].requests
             \/ Len(r.events) > Len(flow[f].events)
             \/ Len(r.sleeps) > Len(flow[f].sleeps)
             \/ r.pc = "typing" /\ flow[f].pc # "typing") =>
               r.msg # 0 /\ PassesBothGates(HandlerMessages[r.msg])
         /\ (flow[f].pc = "idle" /\ r.pc # "idle"
               /\ ~PassesBothGates(HandlerMessages[r.msg])) =>
               /\ r.pc = "done"
               /\ r.requests = 0 /\ r.sleeps = <<>> /\ r.events = <<>>
               /\ cacheLinks' = cacheLinks
               /\ hits' = hits /\ misses' = misses /\ gets' = gets]_vars

\* A message that passes the pre-filter and fails the validation was
\* answered while the cache held an entry and had counted a miss.
C29_Witness ==
    \E f \in Flows :
        /\ flow[f].pc = "done" /\ flow[f].via = "validation"
        /\ flow[f].error.cls = "NotUrlError"
        /\ flow[f].requests = 0
        /\ cacheLinks # <<>> /\ misses = 1

\* C30: a call with a key that misses the cache and succeeds goes through
\* lookup, fetch, extract, store and return once each and in this order: the
\* page is there before the extraction, and when the call returns its record
\* the cache already holds that record under the key.
C30_StagesInOrder ==
    [][\A f \in Flows :
         LET r == flow'[f] IN
         (/\ flow[f].pc # "done" /\ r.pc = "done"
          /\ r.via = "fetch" /\ key_given(r.key) /\ r.error = NoError) =>
             /\ r.events = <<"lookup", "fetch", "page", "extract", "store", "return">>
             /\ r.requests >= 1 /\ r.extracts = 1
             /\ cache_contains(cacheLinks', now, r.key)
             /\ cacheLinks'[cache_value(cacheLinks', r.key)].value = r.result]_vars

\* A call that missed, was retried, and returned the record it stored.
C30_Witness ==
    \E f \in Flows :
        /\ flow[f].pc = "done" /\ flow[f].via = "fetch" /\ flow[f].error = NoError
        /\ key_given(flow[f].key)
        /\ flow[f].requests = 2
        /\ flow[f].events = <<"lookup", "fetch", "page", "extract", "store", "return">>
        /\ lastPut.key = flow[f].key /\ lastPut.value = flow[f].result

\* The call of flow f has failed: it raised, or its page gave no strategy
\* anything to extract.
FailedCall(r) == r.pc = "done" /\ r.via = "fetch" /\ (r.error # NoError \/ r.page_failed)

\* C31: a call that fails in the fetch or in the extraction stores nothing:
\* its lookup counts one miss and leaves the entries alone, every later step
\* of the call leaves the entries and both counters as they were, and when it
\* has failed its key has no live entry, so the next call with the key misses.
C31_FailureIsNotCached ==
    [][\A f \in Flows :
         LET r == flow'[f] IN
         (flow[f] # r /\ r.via = "fetch" /\ key_given(r.key)
            /\ (r.pc # "done" \/ FailedCall(r))) =>
             /\ cacheLinks' = cacheLinks
             /\ hits' = hits
             /\ misses' = IF Started(f) THEN misses + 1 ELSE misses
             /\ FailedCall(r) => ~cache_contains(cacheLinks', now', r.key)]_vars

\* A call failed with ParsingError after a retry while the cache held the
\* live entry another key's call had stored.
C31_Witness ==
    \E f \in Flows :
        /\ FailedCall(flow[f]) /\ flow[f].error = ParsingError
        /\ key_given(flow[f].key)
        /\ flow[f].requests = 2
        /\ misses = 2
        /\ \E i \in 1..Len(cacheLinks) :
              cacheLinks[i].key # flow[f].key /\ now < cacheLinks[i].expires

\* C32: a call given no track_id (None or the empty string) never touches
\* the cache: no step of it changes the entries, the counters or the number
\* of lookups, and its first step issues a request.
C32_NoKeyNoCache ==
    [][\A f \in Flows :
         LET r == flow'[f] IN
         (flow[f] # r /\ r.pc # "idle" /\ r.key \in NoKeyArgs) =>
             /\ cacheLinks' = cacheLinks
             /\ hits' = hits /\ misses' = misses /\ gets' = gets
             /\ lastPut' = lastPut
             /\ r.via = "fetch"
             /\ Started(f) => (r.pc = "get" /\ r.requests = 1)]_vars

\* A call given the empty string has fetched and returned a record of a URL
\* whose record was in the cache, live, all along.
C32_Witness ==
    \E f \in Flows :
        /\ flow[f].pc = "done" /\ flow[f].key = -1
        /\ flow[f].error = NoError /\ flow[f].result # NoRecord
        /\ flow[f].requests >= 1
        /\ hits + misses = 1
        /\ \E i \in 1..Len(cacheLinks) :
              /\ cacheLinks[i].value.url = flow[f].url
              /\ cacheLinks[i].expires > now

\* Flow f is in, or has ended, a call that missed the cache for its key.
Missed(r) == r.pc # "idle" /\ r.via = "fetch" /\ key_given(r.key)

EntriesOf(c, k) == { i \in 1..Len(c) : c[i].key = k }

\* C33: two calls that both missed the cache for one key are not merged:
\* each has issued a request of its own, and each one that succeeds stores
\* its record, after which the cache holds one entry for the key and it is
\* the record of the call that stored last.
C33_NoCoalescing ==
    [][\A f, g \in Flows :
         LET r == flow'[f]
             q == flow'[g]
         IN
         (f # g /\ Missed(r) /\ Missed(q) /\ r.key = q.key) =>
             /\ r.requests >= 1 /\ q.requests >= 1
             /\ (flow[f].pc # "done" /\ r.pc = "done" /\ r.error = NoError) =>
                   /\ <<r.key, r.result>> \in stored'
                   /\ Cardinality(EntriesOf(cacheLinks', r.key)) = 1
                   /\ \A i \in EntriesOf(cacheLinks', r.key) :
                         /\ cacheLinks'[i].value = r.result
                         /\ now < cacheLinks'[i].expires]_vars

\* Both calls missed and both stored: the first one's record, of another
\* URL of the track, is no longer in the cache; the second one's is.
C33_Witness ==
    \E f, g \in Flows :
        /\ f # g
        /\ Missed(flow[f]) /\ Missed(flow[g]) /\ flow[f].key = flow[g].key
        /\ flow[f].pc = "done" /\ flow[g].pc = "done"
        /\ flow[f].error = NoError /\ flow[g].error = NoError
        /\ flow[f].result # flow[g].result
        /\ misses = 2 /\ hits = 0
        /\ {<<flow[f].key, flow[f].result>>, <<flow[g].key, flow[g].result>>} \subseteq stored
        /\ lastPut.value = flow[g].result
        /\ Len(cacheLinks) = 1
        /\ cacheLinks[1].value = flow[g].result

\* What the final attempt of the call of flow f ended with: the exception
\* client.get raised, or the HTTPStatusError of the response it returned.
FinalAttemptFailure(r) ==
    IF r.last_failure # NoException THEN r.last_failure ELSE HTTPStatusError(r.last_status)

\* C34: for every retry budget from 0 up, a fetch that fails raises the
\* failure of its final attempt, whatever the earlier attempts ended with,
\* and never leaves the retry loop by running out of attempts.
C34_FinalAttemptFailureRaised ==
    \A f \in Flows :
        (Done(f) /\ flow[f].raised # NoException) =>
            /\ flow[f].raised = FinalAttemptFailure(flow[f])
            /\ ~flow[f].after_loop

\* Two answers 503, then a read timeout on the last attempt: the caller
\* gets the timeout, while last_exception held the 503 until then.
C34_Witness ==
    \E f \in Flows :
        /\ Done(f)
        /\ flow[f].requests = 3
        /\ flow[f].last_status = 0
        /\ flow[f].raised = Exc("ReadTimeout", FALSE)
        /\ flow[f].last_failure = Exc("ReadTimeout", FALSE)
        /\ flow[f].error = BotError("NetworkError", "ReadTimeoutError", 0)

\* The response flow f has just got is retried, and not by the Retry-After
\* wait: any retryable status but a 429 that names a wait in seconds.
RetriedByBackoff(f) ==
    /\ flow[f].pc = "get" /\ flow'[f] # flow[f]
    /\ flow'[f].last_failure = NoException
    /\ flow'[f].last_status \in RETRY_ON_STATUS
    /\ attempts_remain(flow[f].attempt)
    /\ flow'[f].last_status = 429 => parse_float_ms(flow'[f].last_retry_after).none

\* C35: a 429 with attempts left and no Retry-After header, or one that is
\* no number, is retried as every other retryable status is: the response is
\* kept as last_exception, the next attempt starts, and it sleeps its
\* exponential backoff before its request.
C35_Unusable429RetryAfterBacksOff ==
    [][\A f \in Flows :
         RetriedByBackoff(f) =>
             /\ flow'[f].pc = "sleep_backoff"
             /\ flow'[f].attempt = flow[f].attempt + 1
             /\ flow'[f].requests = flow[f].requests
             /\ flow'[f].last_exception = HTTPStatusError(flow'[f].last_status)
             /\ \E u \in JitterDraws :
                   flow'[f].sleeps = <<[kind |-> "sleep_backoff",
                                       ms |-> calculate_backoff(flow[f].attempt + 1, u)]>>]_vars

\* The second attempt got a 429 whose Retry-After is an HTTP date, and the
\* call is in the backoff wait of its third attempt.
C35_Witness ==
    \E f \in Flows :
        /\ flow[f].pc = "sleep_backoff"
        /\ flow[f].last_status = 429 /\ flow[f].last_retry_after = "date"
        /\ flow[f].requests = 2 /\ flow[f].attempt = 2
        /\ flow[f].last_exception = HTTPStatusError(429)

\* C36: no wait between two attempts, backoff or Retry-After, is longer
\* than max_delay.
C36_MaxDelayBoundsSleeps ==
    \A f \in Flows :
        \A i \in 1..Len(flow[f].sleeps) : flow[f].sleeps[i].ms <= MaxDelayMs

\* C37: if every client.get ends and every sleep ends, every call ends, by
\* returning or by raising, and it has issued at most max_retries + 1
\* requests by then, whatever the server answers.
C37_EveryCallTerminates ==
    /\ \A f \in Flows : (flow[f].pc # "idle") ~> (flow[f].pc = "done")
    /\ [](\A f \in Flows : flow[f].pc = "done" => flow[f].requests <= max_retries + 1)

\* A call answered 429 with a Retry-After of 5 seconds every time has ended
\* with RateLimitError after its third request.
C37_Witness ==
    \E f \in Flows :
        /\ Done(f)
        /\ flow[f].requests = MAX_RETRIES + 1
        /\ flow[f].all_retryable
        /\ flow[f].last_status = 429 /\ flow[f].last_retry_after = "5"
        /\ flow[f].last_exception = HTTPStatusError(429)
        /\ flow[f].error = BotError("HttpError", "RateLimitError", 429)

\* Flow g waits for client.get or sleeps between two attempts.
Suspended(g) == flow[g].pc \in {"get", "sleep_backoff", "sleep_retry_after"}

\* The next step of the flow f can be taken now.
CanGoOn(f) ==
    /\ (flow[f].pc = "typing" /\ hits + misses < MaxLookups) =>
          ENABLED send_chat_action_returns(f)
    /\ flow[f].pc = "get" =>
          ENABLED (\E resp \in HandlerResponses : client_get_responds(f, resp))
    /\ flow[f].pc = "sleep_backoff" => ENABLED sleep_backoff_ends(f)
    /\ flow[f].pc = "done" => ENABLED call_returns(f)

\* C38: while a call waits for the network or sleeps before a retry, every
\* other call can take its next step, whichever it is: enter get_track_info
\* and look up the cache, get its response, end its sleep, return.
C38_SuspendedFlowBlocksNoOne ==
    \A f, g \in Flows : (f # g /\ Suspended(g)) => CanGoOn(f)

\* A call looked up the cache, missed, was answered 503 and sleeps its
\* backoff; the other call has since stored the record of the same track
\* (had it stored before that lookup, the lookup would have hit) and ended.
C38_Witness ==
    \E f, g \in Flows :
        /\ f # g
        /\ flow[g].pc = "sleep_backoff" /\ flow[g].requests = 1
        /\ flow[g].events = <<"lookup", "fetch">>
        /\ flow[f].pc = "done" /\ flow[f].via = "fetch" /\ flow[f].error = NoError
        /\ flow[f].key = flow[g].key
        /\ lastPut.key = flow[f].key /\ lastPut.value = flow[f].result
        /\ lastPut.at = 0 /\ now = 0
        /\ misses = 2

AppliedOgParse == applied.called /\ applied.fn = "OpenGraphParser.parse"

\* The separators in the order the claim gives them.
ClaimedSeparators == << <<" ", EmDash, " ">>, <<" ", "-", " ">>, <<" ", EnDash, " ">> >>

OccursIn(t, sep) == \E i \in 1..Len(t) : MatchAt(t, i, sep)

FirstAt(t, sep) ==
    CHOOSE i \in 1..Len(t) : MatchAt(t, i, sep) /\ \A j \in 1..(i - 1) : ~MatchAt(t, j, sep)

\* The title split as the claim says: at the first occurrence of the first
\* separator of the list that occurs; <<title, sentinel>> if none does.
ClaimedSplit(t) ==
    LET present == { k \in 1..Len(ClaimedSeparators) : OccursIn(t, ClaimedSeparators[k]) } IN
    IF present = {} THEN <<t, UNKNOWN_ARTIST>>
    ELSE LET k == CHOOSE x \in present : \A y \in present : x <= y
             sep == ClaimedSeparators[k]
             i == FirstAt(t, sep)
         IN <<strip(SubSeq(t, 1, i - 1)), strip(SubSeq(t, i + Len(sep), Len(t)))>>

\* C39: the Open Graph strategy splits the trimmed og:title once, at the
\* first occurrence of the first of " (em dash) ", " - ", " (en dash) " that
\* occurs in it, into track name and artist; without a separator the title
\* is the name and the artist is the sentinel; an og:audio:artist tag with
\* content replaces the artist of the split; no record when the name is empty.
C39_OgTitleSplit ==
    (AppliedOgParse /\ applied.arg.title.present /\ applied.arg.title.text # <<>>) =>
        LET tags == applied.arg
            out == applied.out
            split == ClaimedSplit(strip(tags.title.text))
            tagged == tags.artist.present /\ tags.artist.text # <<>>
        IN IF split[1] = <<>> THEN out = NoTrackInfo
           ELSE /\ out # NoTrackInfo
                /\ out.name = split[1]
                /\ ~tagged => out.artist = split[2]
                /\ (tagged /\ strip(tags.artist.text) # <<>>) =>
                      out.artist = strip(tags.artist.text)
                /\ (tagged /\ strip(tags.artist.text) = <<>>) =>
                      out.artist = UNKNOWN_ARTIST

\* "T - A (em dash) B": the hyphen comes first in the title, the em dash
\* first in the list, and the record is "T - A" by "B".
C39_Witness ==
    /\ AppliedOgParse
    /\ applied.arg.title.text = <<"T", " ", "-", " ", "A", " ", EmDash, " ", "B">>
    /\ ~applied.arg.artist.present
    /\ applied.out.name = <<"T", " ", "-", " ", "A">>
    /\ applied.out.artist = <<"B">>

====
